---- MODULE Spec2Model ----
(***************************************************************************)
(* Model of the tigera operator's LogCollector controller                  *)
(* (pkg/controller/logcollector) and of the Fluentd and LogStorage         *)
(* renderers (pkg/render).                                                 *)
(*                                                                         *)
(* The cluster is a function from the resources Reconcile reads to the     *)
(* outcome of reading them.  Reconcile is one action: it runs the handler  *)
(* from the fetch of the LogCollector to its return, recording every call  *)
(* it makes, and applies the writes it made (defaults Patch, status        *)
(* manager calls, Status.State) together with controller-runtime's         *)
(* handling of the returned (Result, error).                               *)
(***************************************************************************)
EXTENDS Integers, Sequences, FiniteSets, TLC

VARIABLES
    cluster,         \* resource name -> outcome of reading it from the API server
    cr,              \* the LogCollector "tigera-secure" as stored in the cluster
    tierWatchReady,  \* utils.ReadyFlag set once the Tier watch is established
    licenseAPIReady, \* utils.ReadyFlag set once the LicenseKey watch is established
    queue,           \* controller-runtime work queue: queued request, pending timer
    inv,             \* the last Reconcile invocation (calls, result, error)
    prev,            \* the invocation before it, when the cluster did not change in between
    es,              \* ElasticsearchConfiguration handed to render.LogStorage
    esOut,           \* results of the Objects() calls on LogStorage components
    fl,              \* FluentdConfiguration handed to render.Fluentd
    flOut,           \* results of the Objects() calls on Fluentd components
    ns,              \* LogStorage Spec.Nodes handed to nodeSets()
    nsOut,           \* result of nodeSets()
    call,            \* a helper function called on its own: its name and arguments
    ret              \* what the helper returned, once it has

vars == <<cluster, cr, tierWatchReady, licenseAPIReady, queue, inv, prev,
          es, esOut, fl, flOut, ns, nsOut, call, ret>>

ctlVars == <<cluster, cr, tierWatchReady, licenseAPIReady, queue, inv, prev>>
esVars == <<es, esOut>>
flVars == <<fl, flOut>>
nsVars == <<ns, nsOut>>
fnVars == <<call, ret>>

(***************************************************************************)
(* Bounds of the model.                                                    *)
(***************************************************************************)
\* Most resources that are simultaneously missing, failing or not ready.
MaxFaults == 1
\* Largest Spec.Nodes.Count handed to nodeSets().
MaxCount == 7
\* Most entries of Spec.Nodes.NodeSets.
MaxNodeSets == 4
\* Most calls of Objects() on the components of one configuration.
MaxRenders == 2
\* The largest memory request of the Elasticsearch nodes, in Gi.
MaxMemoryGi == 64

(***************************************************************************)
(* Program constants.                                                      *)
(***************************************************************************)
\* RequeueAfter of the tier-watch, tier, license-watch and license waits.
RequeueWait == 10
\* RequeueAfter of the Elasticsearch-secret and Prometheus-certificate waits.
RequeueSecrets == 5
\* RequeueAfter when the status manager is not available yet.
RequeueAvailable == 30
\* The storage request of the Elasticsearch nodes, in Gi, when none is asked.
DefaultElasticStorageGi == 10

Range(s) == {s[i] : i \in DOMAIN s}

(***************************************************************************)
(* The cluster as Reconcile reads it.  Each resource maps to the outcome   *)
(* of the read (or write) Reconcile issues for it.                         *)
(***************************************************************************)
Outcomes ==
    [ logCollector    |-> {"ok", "notfound", "error"},  \* cli.Get of the LogCollector
      patch           |-> {"ok", "error"},              \* r.client.Patch of the defaults
      apiServer       |-> {"ok", "notready"},           \* utils.IsAPIServerReady
      tier            |-> {"ok", "notfound", "error"},  \* Get of the allow-tigera Tier
      license         |-> {"ok", "notfound", "error"},  \* utils.FetchLicenseKey
      exportLogs      |-> {"ok", "inactive"},           \* license feature export-logs
      installation    |-> {"ok", "eks", "notfound", "error"}, \* "eks": found, provider EKS
      esClusterConfig |-> {"ok", "notfound", "error"},
      pullSecrets     |-> {"ok", "error"},
      esSecrets       |-> {"ok", "notfound", "error"},
      tigeraCA        |-> {"ok", "error"},              \* certificatemanager.Create
      fluentdKeyPair  |-> {"ok", "error"},              \* GetOrCreateKeyPair
      prometheusCert  |-> {"ok", "notfound", "error"},  \* "notfound": nil certificate
      esgwCert        |-> {"ok", "notfound", "error"},  \* "notfound": nil certificate
      s3Secret        |-> {"ok", "notfound", "error"},
      splunkSecret    |-> {"ok", "notfound", "error"},
      mcc             |-> {"notfound", "ok", "error"},  \* ManagementClusterConnection
      filters         |-> {"ok", "notfound", "error"},  \* "notfound": nil filters
      eksSecret       |-> {"ok", "notfound", "error"},  \* "notfound": nil EKS config
      imageSet        |-> {"ok", "error"},              \* ApplyImageSet, Linux component
      applyFluentd    |-> {"ok", "error"},              \* CreateOrUpdateOrDelete, Linux Fluentd
      applyCerts      |-> {"ok", "error"},              \* CreateOrUpdateOrDelete, certificates
      nodes           |-> {"ok", "windows", "error"},   \* list of the Windows nodes
      imageSetWindows |-> {"ok", "error"},              \* ApplyImageSet, Windows component
      applyWindows    |-> {"ok", "error"},              \* CreateOrUpdateOrDelete, Windows Fluentd
      available       |-> {"ok", "notready"},           \* status manager IsAvailable
      statusUpdate    |-> {"ok", "error"} ]             \* Status().Update

Res == DOMAIN Outcomes

\* The cluster in which every resource Reconcile needs is there: a standalone
\* cluster (no ManagementClusterConnection) without Windows nodes.
Baseline == [r \in Res |-> IF r = "mcc" THEN "notfound" ELSE "ok"]

\* The outcomes of a resource that are no fault: a cluster has Windows nodes
\* or has none.
Healthy(r) == IF r = "nodes" THEN {"ok", "windows"} ELSE {Baseline[r]}

\* The resources that are missing, failing, not ready or otherwise off Baseline.
Faults(c) == {r \in Res : c[r] \notin Healthy(r)}

\* Every cluster with at most n faults.
RECURSIVE ClustersWithin(_)
ClustersWithin(n) ==
    IF n = 0 THEN {[Baseline EXCEPT !.nodes = v] : v \in Healthy("nodes")}
    ELSE LET S == ClustersWithin(n - 1) IN
         S \cup UNION { UNION { {[c EXCEPT ![r] = v] : v \in Outcomes[r]} : r \in Res }
                        : c \in S }

ClusterStates == ClustersWithin(MaxFaults)

(***************************************************************************)
(* The LogCollector CR: the fields of Spec that Reconcile reads, and       *)
(* Status.State.                                                           *)
(***************************************************************************)
LC(cpp, stores, s3, syslog, valid, typesNil, types, splunk, eks) ==
    [ CollectProcessPath  |-> cpp,      \* "nil", "Enabled" or "Disabled"
      AdditionalStores    |-> stores,   \* Spec.AdditionalStores != nil
      S3                  |-> s3,       \* AdditionalStores.S3 != nil
      Syslog              |-> syslog,   \* AdditionalStores.Syslog != nil
      SyslogEndpointValid |-> valid,    \* url.ParseEndpoint(Syslog.Endpoint) succeeds
      LogTypesNil         |-> typesNil, \* Syslog.LogTypes == nil
      LogTypes            |-> types,    \* Syslog.LogTypes
      Splunk              |-> splunk,   \* AdditionalStores.Splunk != nil
      EksCloudwatchLog    |-> eks,      \* AdditionalSources.EksCloudwatchLog != nil
      State               |-> "" ]      \* Status.State

DefaultLogTypes == <<"Audit", "DNS", "Flows">>

LogCollectors ==
    { LC("nil", FALSE, FALSE, FALSE, TRUE, TRUE, <<>>, FALSE, FALSE),
      LC("Enabled", FALSE, FALSE, FALSE, TRUE, TRUE, <<>>, FALSE, FALSE),
      LC("Disabled", FALSE, FALSE, FALSE, TRUE, TRUE, <<>>, FALSE, FALSE),
      LC("Enabled", FALSE, FALSE, FALSE, TRUE, TRUE, <<>>, FALSE, TRUE),
      LC("Enabled", TRUE, FALSE, FALSE, TRUE, TRUE, <<>>, FALSE, FALSE),
      LC("Enabled", TRUE, TRUE, FALSE, TRUE, TRUE, <<>>, FALSE, FALSE),
      LC("Enabled", TRUE, FALSE, FALSE, TRUE, TRUE, <<>>, TRUE, FALSE),
      LC("Enabled", TRUE, FALSE, TRUE, TRUE, FALSE, DefaultLogTypes, FALSE, FALSE),
      LC("Enabled", TRUE, FALSE, TRUE, TRUE, TRUE, <<>>, FALSE, FALSE),
      LC("nil", TRUE, FALSE, TRUE, TRUE, TRUE, <<>>, FALSE, FALSE),
      LC("Disabled", TRUE, FALSE, TRUE, TRUE, FALSE, <<>>, FALSE, FALSE),
      LC("Enabled", TRUE, FALSE, TRUE, TRUE, FALSE, <<"Audit", "IDSEvents">>, FALSE, FALSE),
      LC("Enabled", TRUE, FALSE, TRUE, FALSE, FALSE, DefaultLogTypes, FALSE, FALSE),
      LC("nil", TRUE, FALSE, TRUE, FALSE, TRUE, <<>>, FALSE, FALSE),
      LC("Enabled", TRUE, TRUE, TRUE, TRUE, FALSE, DefaultLogTypes, TRUE, FALSE) }


(***************************************************************************)
(* GetLogCollector and fillDefaults.                                       *)
(***************************************************************************)
\* The key of the one LogCollector the operator supports, and the keys of
\* reconcile requests: EnqueueRequestForObject queues the namespace and name
\* of the object the event is about.
DefaultTSEEInstanceKey == [Namespace |-> "", Name |-> "tigera-secure"]

Requests ==
    { DefaultTSEEInstanceKey,
      [Namespace |-> "", Name |-> "node-1"],
      [Namespace |-> "tigera-operator", Name |-> "log-collector-s3-credentials"] }

\* cli.Get of the LogCollector with this key: the cluster holds no
\* LogCollector but, when it does, tigera-secure.
Get(key) ==
    IF key = DefaultTSEEInstanceKey THEN cluster.logCollector
    ELSE IF cluster.logCollector = "error" THEN "error"
    ELSE "notfound"

\* GetLogCollector without the parse of the Syslog endpoint.
\* InvalidEndpointExit tells the two apart.
GetLogCollectorUnvalidated ==
    IF cluster.logCollector # "ok"
    THEN [instance |-> cr, err |-> cluster.logCollector]
    ELSE [instance |-> cr, err |-> "nil"]

\* The (instance, err) GetLogCollector returns: err is "nil", "notfound" (the
\* Get's NotFound), "error" (any other failure of the Get) or "invalid" (the
\* Syslog endpoint does not parse).
GetLogCollector ==
    LET get == Get(DefaultTSEEInstanceKey) IN
    IF get # "ok"
    THEN [instance |-> cr, err |-> get]
    ELSE IF cr.AdditionalStores /\ cr.Syslog /\ ~cr.SyslogEndpointValid
    THEN [instance |-> cr, err |-> "invalid"]
    ELSE [instance |-> cr, err |-> "nil"]

\* Whether fillDefaults sets CollectProcessPath.
DefaultsCollectProcessPath(instance) == instance.CollectProcessPath = "nil"

\* Whether fillDefaults sets Syslog.LogTypes.
DefaultsLogTypes(instance) ==
    /\ instance.AdditionalStores
    /\ instance.Syslog
    /\ (instance.LogTypesNil \/ Len(instance.LogTypes) = 0)

\* fillDefaults reporting CollectProcessPath as modified whether it was set
\* or not.  ReEntrant tells the two apart.
fillDefaultsAlwaysModified(instance) ==
    LET i1 == [instance EXCEPT !.CollectProcessPath =
                   IF @ = "nil" THEN "Enabled" ELSE @]
        i2 == IF DefaultsLogTypes(i1)
              THEN [i1 EXCEPT !.LogTypes = DefaultLogTypes, !.LogTypesNil = FALSE]
              ELSE i1
    IN [instance |-> i2, modifiedFields |-> <<"CollectProcessPath">>]

\* fillDefaults setting CollectProcessPath to Enabled whenever it is not
\* Enabled, a user's Disabled included.  FillDefaultsContract tells the two
\* apart.
fillDefaultsOverwrites(instance) ==
    LET i1 == [instance EXCEPT !.CollectProcessPath = "Enabled"]
        m1 == IF instance.CollectProcessPath # "Enabled"
              THEN <<"CollectProcessPath">>
              ELSE <<>>
        i2 == IF DefaultsLogTypes(i1)
              THEN [i1 EXCEPT !.LogTypes = DefaultLogTypes, !.LogTypesNil = FALSE]
              ELSE i1
        m2 == IF DefaultsLogTypes(i1)
              THEN Append(m1, "AdditionalStores.Syslog.LogTypes")
              ELSE m1
    IN [instance |-> i2, modifiedFields |-> m2]

\* The instance fillDefaults leaves, and the modifiedFields it returns.
fillDefaults(instance) ==
    LET i1 == IF DefaultsCollectProcessPath(instance)
              THEN [instance EXCEPT !.CollectProcessPath = "Enabled"]
              ELSE instance
        m1 == IF DefaultsCollectProcessPath(instance)
              THEN <<"CollectProcessPath">>
              ELSE <<>>
        i2 == IF DefaultsLogTypes(i1)
              THEN [i1 EXCEPT !.LogTypes = DefaultLogTypes, !.LogTypesNil = FALSE]
              ELSE i1
        m2 == IF DefaultsLogTypes(i1)
              THEN Append(m1, "AdditionalStores.Syslog.LogTypes")
              ELSE m1
    IN [instance |-> i2, modifiedFields |-> m2]

(***************************************************************************)
(* The Fluentd renderer (pkg/render/fluentd.go).  A rendered object is the *)
(* record of its kind, namespace and name and of the part of its content   *)
(* that depends on the configuration.                                      *)
(***************************************************************************)
Obj(kind, namespace, name, data) ==
    [kind |-> kind, namespace |-> namespace, name |-> name, data |-> data]

LogCollectorNamespace == "tigera-fluentd"

\* n copies of a secret made by secret.CopyToNamespace.
CopyToNamespace(namespace, name, n) ==
    [i \in 1..n |-> Obj("Secret", namespace, name, <<>>)]

fluentdName(cfg) ==
    IF cfg.OSType = "windows" THEN "tigera-fluentd-windows" ELSE "tigera-fluentd"

fluentdNodeName(cfg) ==
    IF cfg.OSType = "windows" THEN "fluentd-node-windows" ELSE "fluentd-node"

\* c.path: the c: prefix on Windows.
path(cfg, p) == IF cfg.OSType = "windows" THEN "c:" \o p ELSE p

\* The environment variables one Syslog log type adds, in the order of LogTypes.
RECURSIVE syslogLogTypeEnvs(_)
syslogLogTypeEnvs(types) ==
    IF types = <<>> THEN <<>>
    ELSE (CASE Head(types) = "Audit" ->
                  <<"SYSLOG_AUDIT_EE_LOG=true", "SYSLOG_AUDIT_KUBE_LOG=true">>
            [] Head(types) = "DNS" -> <<"SYSLOG_DNS_LOG=true">>
            [] Head(types) = "Flows" -> <<"SYSLOG_FLOW_LOG=true">>
            [] Head(types) = "IDSEvents" -> <<"SYSLOG_IDS_EVENT_LOG=true">>
            [] OTHER -> <<>>)
         \o syslogLogTypeEnvs(Tail(types))

\* The environment of the fluentd container.  (Values that are copied from
\* the CR's strings, and the index settings of the cluster configuration, are
\* the same for every configuration of the model.)
envvars(cfg) ==
    LET lc == cfg.LogCollector IN
    << "FLUENT_UID=0",
       "FLOW_LOG_FILE=" \o path(cfg, "/var/log/calico/flowlogs/flows.log"),
       "DNS_LOG_FILE=" \o path(cfg, "/var/log/calico/dnslogs/dns.log"),
       "FLUENTD_ES_SECURE=true",
       "NODENAME" >>
    \o (IF lc.AdditionalStores /\ lc.S3
        THEN <<"AWS_KEY_ID", "AWS_SECRET_KEY", "S3_STORAGE=true", "S3_BUCKET_NAME",
               "AWS_REGION", "S3_BUCKET_PATH", "S3_FLUSH_INTERVAL=5s">>
        ELSE <<>>)
    \o (IF lc.AdditionalStores /\ lc.Syslog
        THEN <<"SYSLOG_HOST", "SYSLOG_PORT", "SYSLOG_PROTOCOL",
               "SYSLOG_FLUSH_INTERVAL=5s", "SYSLOG_HOSTNAME">>
             \o (IF lc.LogTypesNil THEN <<>> ELSE syslogLogTypeEnvs(lc.LogTypes))
        ELSE <<>>)
    \o (IF lc.AdditionalStores /\ lc.Splunk
        THEN <<"SPLUNK_HEC_TOKEN", "SPLUNK_FLOW_LOG=true", "SPLUNK_AUDIT_LOG=true",
               "SPLUNK_DNS_LOG=true", "SPLUNK_HEC_HOST", "SPLUNK_HEC_PORT",
               "SPLUNK_PROTOCOL", "SPLUNK_FLUSH_INTERVAL=5s">>
             \o (IF cfg.SplkCredential = "token+cert"
                 THEN <<"SPLUNK_CA_FILE=/etc/ssl/splunk/ca.pem">> ELSE <<>>)
        ELSE <<>>)
    \o (IF cfg.Filters
        THEN <<"FLUENTD_FLOW_FILTERS=true", "FLUENTD_DNS_FILTERS=true">>
        ELSE <<>>)
    \o << "ELASTIC_FLOWS_INDEX_REPLICAS", "ELASTIC_DNS_INDEX_REPLICAS",
          "ELASTIC_AUDIT_INDEX_REPLICAS", "ELASTIC_BGP_INDEX_REPLICAS",
          "ELASTIC_FLOWS_INDEX_SHARDS", "ELASTIC_DNS_INDEX_SHARDS",
          "ELASTIC_AUDIT_INDEX_SHARDS", "ELASTIC_BGP_INDEX_SHARDS" >>
    \o (IF cfg.OSType # "windows"
        THEN <<"CA_CRT_PATH", "TLS_KEY_PATH", "TLS_CRT_PATH">>
        ELSE <<>>)

\* The hash annotations of the daemonset's pod template, then its environment.
daemonset(cfg) ==
    Obj("DaemonSet", LogCollectorNamespace, fluentdNodeName(cfg),
        (IF cfg.MetricsServerTLS THEN <<"hash:metrics-server-tls">> ELSE <<>>)
        \o (IF cfg.S3Credential THEN <<"hash:s3-credentials">> ELSE <<>>)
        \o (IF cfg.SplkCredential # "nil" THEN <<"hash:splunk-credentials">> ELSE <<>>)
        \o (IF cfg.Filters THEN <<"hash:fluentd-filters">> ELSE <<>>)
        \o envvars(cfg))

\* Secrets for the Splunk token and, when there is one, the certificate.
splunkCredentialSecret(cfg) ==
    <<Obj("Secret", LogCollectorNamespace, "logcollector-splunk-credentials", <<>>)>>
    \o (IF cfg.SplkCredential = "token+cert"
        THEN <<Obj("Secret", LogCollectorNamespace,
                   "logcollector-splunk-public-certificate", <<>>)>>
        ELSE <<>>)

allowTigeraPolicy(cfg) ==
    Obj("NetworkPolicy", LogCollectorNamespace, "allow-tigera.allow-fluentd-node",
        IF cfg.ManagedCluster THEN <<"deny:guardian", "allow">>
        ELSE IF cfg.Provider = "OpenShift"
        THEN <<"deny:es-gateway", "dns:openshift", "allow">>
        ELSE <<"deny:es-gateway", "dns", "allow">>)

\* fluentdComponent.Objects(): the objects to create, in order, and those to delete.
FluentdObjects(cfg) ==
    LET N == LogCollectorNamespace
        linux == cfg.OSType = "linux"
        eksName == "eks-log-forwarder"
    IN [ create |->
           << Obj("Namespace", "", N, <<cfg.Provider>>), allowTigeraPolicy(cfg) >>
           \o CopyToNamespace(N, "pull-secret", cfg.PullSecrets)
           \o << Obj("Service", N, "fluentd-metrics", <<>>) >>
           \o (IF cfg.Provider = "GKE"
               THEN <<Obj("ResourceQuota", N, "tigera-critical-pods", <<>>)>> ELSE <<>>)
           \o (IF cfg.S3Credential
               THEN <<Obj("Secret", N, "log-collector-s3-credentials", <<>>)>> ELSE <<>>)
           \o (IF cfg.SplkCredential # "nil" THEN splunkCredentialSecret(cfg) ELSE <<>>)
           \o (IF cfg.Filters
               THEN <<Obj("ConfigMap", N, "fluentd-filters", <<>>)>> ELSE <<>>)
           \o (IF cfg.EKSConfig /\ linux
               THEN (IF cfg.Provider # "OpenShift"
                     THEN << Obj("ClusterRole", "", eksName, <<>>),
                             Obj("ClusterRoleBinding", "", eksName, <<>>) >>
                          \o (IF cfg.UsePSP
                              THEN <<Obj("PodSecurityPolicy", "", eksName, <<>>)>>
                              ELSE <<>>)
                     ELSE <<>>)
                    \o << Obj("ServiceAccount", N, eksName, <<>>),
                          Obj("Secret", N, "tigera-eks-log-forwarder-secret", <<>>),
                          Obj("Deployment", N, eksName, <<>>) >>
               ELSE <<>>)
           \o (IF cfg.Provider # "OpenShift" /\ linux
               THEN << Obj("ClusterRole", "", fluentdName(cfg), <<>>),
                       Obj("ClusterRoleBinding", "", fluentdName(cfg), <<>>) >>
                    \o (IF cfg.UsePSP
                        THEN <<Obj("PodSecurityPolicy", "", fluentdName(cfg), <<>>)>>
                        ELSE <<>>)
               ELSE <<>>)
           \o CopyToNamespace(N, "tigera-fluentd-elasticsearch-access", cfg.ESSecrets)
           \o << Obj("ServiceAccount", N, fluentdNodeName(cfg), <<>>),
                 Obj("Role", N, "packetcapture-api-role", <<>>),
                 Obj("RoleBinding", N, "packetcapture-api-role-binding", <<>>),
                 daemonset(cfg) >>,
         delete |-> <<>> ]

(***************************************************************************)
(* The LogStorage renderer (pkg/render/logstorage.go).  A secret of the    *)
(* configuration is held by pointer: Data is what the pointer leads to.    *)
(* An object of a result that is such a pointer is recorded as the         *)
(* reference ("*KeyStoreSecret"), an object built by the call by its       *)
(* content at the time.                                                    *)
(***************************************************************************)
ECKOperatorNamespace == "tigera-eck-operator"
ElasticsearchNamespace == "tigera-elasticsearch"
KibanaNamespace == "tigera-kibana"

\* The ElasticsearchConfiguration, as far as Objects() branches on it.  The
\* LogStorage has Spec.Nodes set, with at least one node; there is one pull
\* secret and an Elasticsearch user secret.
ESConfig(deleting, esCR, kbCR, mcc, provider, usePSP, fips, curator, keyStore, esService, certMgmt, unusedTLS, resources) ==
    [ LogStorageDeleting          |-> deleting,  \* LogStorage.DeletionTimestamp != nil
      Elasticsearch               |-> esCR,      \* "nil", "live" or "deleting"
      Kibana                      |-> kbCR,      \* "nil", "live" or "deleting"
      ManagementClusterConnection |-> mcc,       \* != nil
      Provider                    |-> provider,
      UsePSP                      |-> usePSP,
      FIPSMode                    |-> fips,      \* Installation.FIPSMode enabled
      ApplyTrial                  |-> FALSE,
      PullSecrets                 |-> 1,
      ElasticsearchUserSecret     |-> TRUE,
      CuratorSecrets              |-> curator,   \* len(CuratorSecrets)
      KeyStoreSecret              |-> keyStore,  \* [present, Data]
      ESService                   |-> esService, \* "nil", "ClusterIP" or "ExternalName"
      KbService                   |-> "nil",
      CertificateManagement       |-> certMgmt,  \* Installation.CertificateManagement != nil
      UnusedTLSSecret             |-> unusedTLS, \* != nil
      ResourceRequirements        |-> resources ] \* Spec.Nodes.ResourceRequirements != nil

\* A KeyStoreSecret: Data maps a key to its bytes, <<>> for a key it lacks.
NoKeyStoreSecret ==
    [present |-> FALSE, Data |-> [KEYSTORE_PASSWORD |-> <<>>, ES_JAVA_OPTS |-> <<>>]]

KeyStoreSecrets ==
    { NoKeyStoreSecret,
      [present |-> TRUE,
       Data |-> [KEYSTORE_PASSWORD |-> <<"password">>, ES_JAVA_OPTS |-> <<>>]],
      [present |-> TRUE,
       Data |-> [KEYSTORE_PASSWORD |-> <<"password">>, ES_JAVA_OPTS |-> <<"-Xms1G">>]] }

\* The JVM options: the heap, and in FIPS mode the trust store with the
\* keystore password read from the KeyStoreSecret.
javaOpts(cfg) ==
    (IF cfg.ResourceRequirements
     THEN <<"-Xms", "recommendedHeapSize", "-Xmx", "recommendedHeapSize">>
     ELSE <<"-Xms2G", "-Xmx2G">>)
    \o (IF cfg.FIPSMode
        THEN <<"--module-path /usr/share/bc-fips/", "-Djavax.net.ssl.trustStorePassword=">>
             \o cfg.KeyStoreSecret.Data.KEYSTORE_PASSWORD
             \o <<"-Dorg.bouncycastle.fips.approved_only=true">>
        ELSE <<>>)

\* The Data of a secret, key by key.
SecretData(secret) ==
    IF ~secret.present THEN <<>>
    ELSE <<"KEYSTORE_PASSWORD:">> \o secret.Data.KEYSTORE_PASSWORD
         \o <<"ES_JAVA_OPTS:">> \o secret.Data.ES_JAVA_OPTS

\* rmeta.SecretsAnnotationHash of the KeyStoreSecret: a hash of the secret's
\* Data, stood for by the Data it hashes.
SecretsAnnotationHash(secret) == <<"hash:">> \o SecretData(secret)

\* The pod template of the Elasticsearch nodes: its environment and its
\* hash annotations.
podTemplate(cfg) ==
    (IF cfg.FIPSMode
     THEN <<"KEYSTORE_PASSWORD<-tigera-secure-elasticsearch-keystore",
            "ES_JAVA_OPTS<-tigera-secure-elasticsearch-keystore">>
     ELSE <<"ES_JAVA_OPTS=">> \o javaOpts(cfg))
    \o (IF cfg.FIPSMode
        THEN <<"hash.operator.tigera.io/keystore-password=">>
             \o SecretsAnnotationHash(cfg.KeyStoreSecret)
        ELSE <<>>)

elasticsearchCluster(cfg) ==
    Obj("Elasticsearch", ElasticsearchNamespace, "tigera-secure", podTemplate(cfg))

\* What the else branch of the FIPS check does to the KeyStoreSecret the
\* configuration points to.
KeyStoreSecretWritten(cfg) ==
    IF /\ ~cfg.LogStorageDeleting
       /\ ~cfg.ManagementClusterConnection
       /\ cfg.FIPSMode
       /\ cfg.KeyStoreSecret.present
    THEN [cfg.KeyStoreSecret EXCEPT !.Data.ES_JAVA_OPTS = javaOpts(cfg)]
    ELSE cfg.KeyStoreSecret

\* The configuration after Objects().
ConfigAfterObjects(cfg) == [cfg EXCEPT !.KeyStoreSecret = KeyStoreSecretWritten(cfg)]

\* A pointer of the configuration put into a result as it is.
Ref(kind, namespace, name, field) == Obj(kind, namespace, name, <<"*" \o field>>)

\* The objects of the ECK operator, Elasticsearch, Kibana and the curator of
\* a standalone or management cluster.  (The key pairs are issued by the
\* certificate management when the Installation has it; there is a Kibana
\* key pair unless in FIPS mode.)
StandaloneCreate(cfg) ==
    LET E == ECKOperatorNamespace
        S == ElasticsearchNamespace
        K == KibanaNamespace
        psp == cfg.Provider # "OpenShift"
    IN << Obj("Namespace", "", E, <<cfg.Provider>>),
          Obj("NetworkPolicy", E, "allow-tigera.elastic-operator-access", <<>>) >>
       \o CopyToNamespace(E, "pull-secret", cfg.PullSecrets)
       \o << Obj("ClusterRole", "", "elastic-operator", <<>>),
             Obj("ClusterRoleBinding", "", "elastic-operator", <<>>),
             Obj("ServiceAccount", E, "elastic-operator", <<>>) >>
       \o (IF cfg.Provider = "DockerEE"
           THEN <<Obj("ClusterRoleBinding", "", "elastic-operator-docker-enterprise", <<>>)>>
           ELSE <<>>)
       \o (IF psp
           THEN << Obj("ClusterRoleBinding", "", "tigera-elasticsearch", <<>>),
                   Obj("ClusterRole", "", "tigera-elasticsearch", <<>>) >>
                \o (IF cfg.UsePSP
                    THEN << Obj("PodSecurityPolicy", "", "elastic-operator", <<>>),
                            Obj("PodSecurityPolicy", "", "tigera-elasticsearch", <<>>) >>
                    ELSE <<>>)
                \o (IF ~cfg.FIPSMode
                    THEN << Obj("ClusterRoleBinding", "", "tigera-kibana", <<>>),
                            Obj("ClusterRole", "", "tigera-kibana", <<>>),
                            Obj("PodSecurityPolicy", "", "tigera-kibana", <<>>) >>
                    ELSE <<>>)
           ELSE <<>>)
       \o (IF cfg.ApplyTrial THEN <<Obj("Secret", E, "eck-trial-license", <<>>)>> ELSE <<>>)
       \o << Obj("StatefulSet", E, "elastic-operator", <<>>),
             Obj("Namespace", "", S, <<cfg.Provider>>),
             Obj("NetworkPolicy", S, "allow-tigera.elasticsearch-access", <<>>),
             Obj("NetworkPolicy", S, "allow-tigera.elasticsearch-internal", <<>>),
             Obj("NetworkPolicy", S, "allow-tigera.default-deny", <<>>) >>
       \o (IF cfg.PullSecrets > 0
           THEN CopyToNamespace(S, "pull-secret", cfg.PullSecrets) ELSE <<>>)
       \o (IF cfg.ElasticsearchUserSecret
           THEN <<Ref("Secret", S, "tigera-secure-es-elastic-user",
                      "ElasticsearchUserSecret")>>
           ELSE <<>>)
       \o << Obj("ServiceAccount", S, "tigera-elasticsearch", <<>>),
             Obj("ConfigMap", "tigera-operator", "tigera-secure-elasticsearch", <<>>),
             elasticsearchCluster(cfg) >>
       \o (IF ~cfg.FIPSMode
           THEN << Obj("Namespace", "", K, <<cfg.Provider>>),
                   Obj("NetworkPolicy", K, "allow-tigera.kibana-access", <<>>),
                   Obj("NetworkPolicy", K, "allow-tigera.default-deny", <<>>),
                   Obj("ServiceAccount", K, "tigera-kibana", <<>>) >>
                \o (IF cfg.PullSecrets > 0
                    THEN CopyToNamespace(K, "pull-secret", cfg.PullSecrets) ELSE <<>>)
                \o << Obj("Kibana", K, "tigera-secure", <<>>) >>
                \o (IF cfg.CuratorSecrets > 0
                    THEN << Obj("NetworkPolicy", S, "allow-tigera.allow-elastic-curator", <<>>) >>
                         \o CopyToNamespace(S, "curator-secret", cfg.CuratorSecrets)
                         \o << Obj("ServiceAccount", S, "tigera-elastic-curator", <<>>) >>
                         \o (IF psp
                             THEN << Obj("ClusterRole", "", "elastic-curator", <<>>),
                                     Obj("ClusterRoleBinding", "", "elastic-curator", <<>>) >>
                                  \o (IF cfg.UsePSP
                                      THEN <<Obj("PodSecurityPolicy", "", "elastic-curator", <<>>)>>
                                      ELSE <<>>)
                             ELSE <<>>)
                         \o << Obj("CronJob", S, "elastic-curator", <<>>) >>
                    ELSE <<>>)
           ELSE IF cfg.KeyStoreSecret.present
           THEN << Ref("Secret", "tigera-operator", "tigera-secure-elasticsearch-keystore",
                       "KeyStoreSecret"),
                   Obj("Secret", S, "tigera-secure-elasticsearch-keystore",
                       SecretData(KeyStoreSecretWritten(cfg))) >>
           ELSE <<>>)
       \o << Obj("Role", S, "tigera-known-oidc-users", <<>>),
             Obj("RoleBinding", S, "tigera-known-oidc-users", <<>>) >>

\* The delete list with the Kibana CR and the curator CronJob in every mode.
\* NoCreateAndDelete tells the two apart.
StandaloneDeleteKibanaAlways(cfg) ==
    << Obj("Kibana", KibanaNamespace, "tigera-secure", <<>>),
       Obj("CronJob", ElasticsearchNamespace, "elastic-curator", <<>>) >>
    \o (IF cfg.ESService = "ExternalName"
        THEN <<Ref("Service", ElasticsearchNamespace, "tigera-secure-es-http", "ESService")>>
        ELSE <<>>)
    \o (IF cfg.KbService = "ExternalName"
        THEN <<Ref("Service", KibanaNamespace, "tigera-secure-kb-http", "KbService")>>
        ELSE <<>>)

\* The objects to delete in a standalone or management cluster: Kibana and
\* the curator in FIPS mode, the services left by a managed cluster.
StandaloneDelete(cfg) ==
    (IF cfg.FIPSMode
     THEN << Obj("Kibana", KibanaNamespace, "tigera-secure", <<>>),
             Obj("CronJob", ElasticsearchNamespace, "elastic-curator", <<>>) >>
     ELSE <<>>)
    \o (IF cfg.ESService = "ExternalName"
        THEN <<Ref("Service", ElasticsearchNamespace, "tigera-secure-es-http", "ESService")>>
        ELSE <<>>)
    \o (IF cfg.KbService = "ExternalName"
        THEN <<Ref("Service", KibanaNamespace, "tigera-secure-kb-http", "KbService")>>
        ELSE <<>>)

\* The finalization deleting the Elasticsearch and Kibana CRs that exist,
\* those already being deleted included.  LogStorageFinalization tells the
\* two apart.
FinalizeDeletesTerminating(cfg) ==
    [ create |-> <<>>,
      delete |->
        (IF cfg.Elasticsearch # "nil"
         THEN <<Ref("Elasticsearch", ElasticsearchNamespace, "tigera-secure",
                    "Elasticsearch")>>
         ELSE <<>>)
        \o (IF cfg.Kibana # "nil"
            THEN <<Ref("Kibana", KibanaNamespace, "tigera-secure", "Kibana")>>
            ELSE <<>>) ]

\* The finalization of a LogStorage that has a DeletionTimestamp.
Finalize(cfg) ==
    [ create |-> <<>>,
      delete |->
        (IF cfg.Elasticsearch = "live"
         THEN <<Ref("Elasticsearch", ElasticsearchNamespace, "tigera-secure",
                    "Elasticsearch")>>
         ELSE <<>>)
        \o (IF cfg.Kibana = "live"
            THEN <<Ref("Kibana", KibanaNamespace, "tigera-secure", "Kibana")>>
            ELSE <<>>) ]

\* elasticsearchComponent.Objects(): the objects to create and those to
\* delete, in order.
LogStorageObjects(cfg) ==
    IF cfg.LogStorageDeleting
    THEN Finalize(cfg)
    ELSE
    [ create |->
        (IF ~cfg.ManagementClusterConnection
         THEN StandaloneCreate(cfg)
         ELSE << Obj("Namespace", "", ElasticsearchNamespace, <<cfg.Provider>>),
                 Obj("Service", ElasticsearchNamespace, "tigera-secure-es-http",
                     <<"ExternalName">>) >>)
        \o (IF cfg.CertificateManagement
            THEN << Ref("Secret", "tigera-operator", "tigera-secure-internal-elasticsearch-cert",
                        "UnusedTLSSecret"),
                    Obj("Secret", ElasticsearchNamespace,
                        "tigera-secure-internal-elasticsearch-cert", <<"UnusedTLSSecret.Data">>) >>
                 \o (IF ~cfg.FIPSMode
                     THEN <<Obj("Secret", KibanaNamespace, "tigera-secure-kibana-cert",
                                <<"UnusedTLSSecret.Data">>)>>
                     ELSE <<>>)
            ELSE <<>>),
      delete |->
        (IF ~cfg.ManagementClusterConnection THEN StandaloneDelete(cfg) ELSE <<>>)
        \o (IF ~cfg.CertificateManagement /\ cfg.UnusedTLSSecret
            THEN <<Ref("Secret", "tigera-operator",
                       "tigera-secure-internal-elasticsearch-cert", "UnusedTLSSecret")>>
            ELSE <<>>) ]

(***************************************************************************)
(* pvcTemplate() and nodeSetName(): the volume claim template of the       *)
(* Elasticsearch nodes and the FNV-1a thumbprint of its JSON that names    *)
(* the NodeSets.                                                           *)
(***************************************************************************)
\* The UTF-8 bytes of the storage class names of the model.
StorageClassBytes ==
    [ c \in {"tigera-elasticsearch", "fast", ""} |->
        CASE c = "tigera-elasticsearch" -> <<116, 105, 103, 101, 114, 97, 45, 101, 108, 97, 115, 116, 105, 99, 115, 101, 97, 114, 99, 104>>
          [] c = "fast" -> <<102, 97, 115, 116>>
          [] OTHER -> <<>> ]

\* The decimal digits of n, as bytes.
RECURSIVE Decimal(_)
Decimal(n) == IF n < 10 THEN <<48 + n>> ELSE Decimal(n \div 10) \o <<48 + (n % 10)>>

\* resource.Quantity.String() of n Gi: the canonical form, as bytes.
QuantityBytes(gi) == Decimal(gi) \o <<71, 105>>

\* No ResourceRequirements in Spec.Nodes; a storage quantity of 0 is a key
\* that is not in the ResourceList.
NoResourceRequirements == [present |-> FALSE, Limits |-> 0, Requests |-> 0]

\* overridePvcRequirements(): the user's storage limit and request in place of
\* the default request.
overridePvcRequirements(defaultReq, userOverrides) ==
    LET limited ==
            IF userOverrides.Limits # 0
            THEN [ Limits   |-> userOverrides.Limits,
                   Requests |-> IF userOverrides.Requests = 0
                                   /\ defaultReq.Requests > userOverrides.Limits
                                THEN userOverrides.Limits
                                ELSE defaultReq.Requests ]
            ELSE defaultReq
    IN IF userOverrides.Requests # 0
       THEN [limited EXCEPT !.Requests = userOverrides.Requests]
       ELSE limited

\* pvcTemplate(): what of the PersistentVolumeClaim varies with the LogStorage,
\* the storage quantities in Gi.
pvcTemplate(logStorage) ==
    LET defaultReq == [Limits |-> 0, Requests |-> DefaultElasticStorageGi] IN
    [ Resources        |-> IF logStorage.present /\ logStorage.ResourceRequirements.present
                           THEN overridePvcRequirements(defaultReq,
                                                        logStorage.ResourceRequirements)
                           ELSE defaultReq,
      StorageClassName |-> logStorage.StorageClassName ]

\* json.Marshal of the PersistentVolumeClaim: empty ResourceLists are left out,
\* the storage class name, a pointer that is never nil, is always there.
MarshalPVC(tpl) ==
    <<123, 34, 109, 101, 116, 97, 100, 97, 116, 97, 34, 58, 123, 34, 110, 97, 109,
        101, 34, 58, 34, 101, 108, 97, 115, 116, 105, 99, 115, 101, 97, 114, 99, 104, 45,
        100, 97, 116, 97, 34, 44, 34, 99, 114, 101, 97, 116, 105, 111, 110, 84, 105, 109,
        101, 115, 116, 97, 109, 112, 34, 58, 110, 117, 108, 108, 125, 44, 34, 115, 112,
        101, 99, 34, 58, 123, 34, 97, 99, 99, 101, 115, 115, 77, 111, 100, 101, 115, 34,
        58, 91, 34, 82, 101, 97, 100, 87, 114, 105, 116, 101, 79, 110, 99, 101, 34, 93,
        44, 34, 114, 101, 115, 111, 117, 114, 99, 101, 115, 34, 58, 123>>
    \o (IF tpl.Resources.Limits # 0
        THEN <<34, 108, 105, 109, 105, 116, 115, 34, 58, 123, 34, 115, 116, 111, 114, 97, 103, 101, 34, 58, 34>> \o QuantityBytes(tpl.Resources.Limits) \o <<34, 125>>
             \o (IF tpl.Resources.Requests # 0 THEN <<44>> ELSE <<>>)
        ELSE <<>>)
    \o (IF tpl.Resources.Requests # 0
        THEN <<34, 114, 101, 113, 117, 101, 115, 116, 115, 34, 58, 123, 34, 115, 116, 111, 114, 97, 103, 101, 34, 58, 34>> \o QuantityBytes(tpl.Resources.Requests) \o <<34, 125>>
        ELSE <<>>)
    \o <<125, 44, 34, 115, 116, 111, 114, 97, 103, 101, 67, 108, 97, 115, 115, 78, 97, 109, 101, 34, 58, 34>> \o StorageClassBytes[tpl.StorageClassName]
    \o <<34, 125, 44, 34, 115, 116, 97, 116, 117, 115, 34, 58, 123, 125, 125>>

\* Bitwise exclusive or of two naturals.
RECURSIVE Xor(_, _)
Xor(a, b) ==
    IF a = 0 THEN b
    ELSE IF b = 0 THEN a
    ELSE 2 * Xor(a \div 2, b \div 2) + (((a % 2) + (b % 2)) % 2)

\* A uint64 as four 16-bit limbs, the least significant first: the offset
\* basis of FNV-1a, 0xcbf29ce484222325.
FNVOffset64 == <<8997, 33826, 40164, 52210>>

\* h * 0x100000001b3 modulo 2^64: h * 0x1b3 + h * 2^40, limb by limb.
FNVMultiply(h) ==
    LET t0 == h[1] * 435
        t1 == h[2] * 435 + (t0 \div 65536)
        t2 == h[3] * 435 + (t1 \div 65536) + ((h[1] * 256) % 65536)
        t3 == h[4] * 435 + (t2 \div 65536) + ((h[2] * 256 + (h[1] \div 256)) % 65536)
    IN << t0 % 65536, t1 % 65536, t2 % 65536, t3 % 65536 >>

\* One byte of hash/fnv New64a().Write: exclusive or, and then multiply.
FNVStep(h, byte) == FNVMultiply([h EXCEPT ![1] = Xor(@, byte)])

\* New64a().Write of the bytes from the i-th on, four bytes at a time while
\* there are four.  The test on h has the hash of the bytes before the i-th
\* computed before the next bytes are read.
RECURSIVE FNV64a(_, _, _)
FNV64a(h, bytes, i) ==
    IF h \in {h} /\ i > Len(bytes) THEN h
    ELSE IF i + 3 <= Len(bytes)
    THEN FNV64a(FNVStep(FNVStep(FNVStep(FNVStep(h, bytes[i]), bytes[i + 1]),
                                bytes[i + 2]), bytes[i + 3]), bytes, i + 4)
    ELSE FNV64a(FNVStep(h, bytes[i]), bytes, i + 1)

HexDigits == <<"0", "1", "2", "3", "4", "5", "6", "7", "8", "9", "a", "b", "c", "d", "e", "f">>

\* Four hexadecimal digits of a 16-bit limb.
HexLimb(l) ==
    HexDigits[(l \div 4096) + 1] \o HexDigits[((l \div 256) % 16) + 1]
    \o HexDigits[((l \div 16) % 16) + 1] \o HexDigits[(l % 16) + 1]

\* hex.EncodeToString of Sum(nil), the most significant byte first.
EncodeToString(h) == HexLimb(h[4]) \o HexLimb(h[3]) \o HexLimb(h[2]) \o HexLimb(h[1])

\* The thumbprint of the default template alone, whatever the LogStorage asks.
nodeSetNameOfDefault(tpl) ==
    EncodeToString(FNV64a(FNVOffset64, MarshalPVC(pvcTemplate(
        [present |-> FALSE, StorageClassName |-> "tigera-elasticsearch"])), 1))

\* nodeSetName(pvcTemplate): the thumbprint of the volume claim template.
\* json.Marshal of a PersistentVolumeClaim and Write of the hash do not fail.
nodeSetName(tpl) == EncodeToString(FNV64a(FNVOffset64, MarshalPVC(tpl), 1))

(***************************************************************************)
(* nodeSets(): the NodeSets of the Elasticsearch CR.                       *)
(***************************************************************************)
\* The NodeSets from index i (from 0) on: the loop ends at the first NodeSet
\* that would have no node.  Count is int32(numNodes), the conversion being
\* the identity on the counts of the model (all below 2^31).
RECURSIVE nodeSetsFrom(_, _)
nodeSetsFrom(nodeConfig, i) ==
    LET n == Len(nodeConfig.NodeSets)
        baseNumNodes == nodeConfig.Count \div n
        numNodes == IF i < nodeConfig.Count % n THEN baseNumNodes + 1 ELSE baseNumNodes
    IN IF i >= n \/ numNodes < 1 THEN <<>>
       ELSE << [ Name     |-> nodeSetName(pvcTemplate(nodeConfig)) \o "-" \o ToString(i),
                 Count    |-> numNodes,
                 Affinity |-> nodeConfig.NodeSets[i + 1] ] >>
            \o nodeSetsFrom(nodeConfig, i + 1)

\* nodeSetsFrom without the extra node of the first Count % len(NodeSets)
\* NodeSets.  NodeSetDistribution tells the two apart.
RECURSIVE nodeSetsFromBase(_, _)
nodeSetsFromBase(nodeConfig, i) ==
    LET n == Len(nodeConfig.NodeSets)
        numNodes == nodeConfig.Count \div n
    IN IF i >= n \/ numNodes < 1 THEN <<>>
       ELSE << [ Name     |-> nodeSetName(pvcTemplate(nodeConfig)) \o "-" \o ToString(i),
                 Count    |-> numNodes,
                 Affinity |-> nodeConfig.NodeSets[i + 1] ] >>
            \o nodeSetsFromBase(nodeConfig, i + 1)

nodeSetsEven(nodeConfig) == nodeSetsFromBase(nodeConfig, 0)

\* The NodeSets of a LogStorage with NodeSets configured.
nodeSetsDistributed(nodeConfig) == nodeSetsFrom(nodeConfig, 0)

\* nodeSets(): no NodeSet without Spec.Nodes; one NodeSet holding every node
\* when Spec.Nodes.NodeSets is empty; else the nodes spread over the NodeSets.
nodeSets(nodeConfig) ==
    IF ~nodeConfig.present THEN <<>>
    ELSE IF Len(nodeConfig.NodeSets) < 1
    THEN << [ Name     |-> nodeSetName(pvcTemplate(nodeConfig)),
              Count    |-> nodeConfig.Count,
              Affinity |-> FALSE ] >>
    ELSE nodeSetsDistributed(nodeConfig)

(***************************************************************************)
(* One Reconcile invocation, as the record of what it has done so far:     *)
(* the calls it made in order, whether it has returned, and the            *)
(* (Result, error) it returned.                                            *)
(***************************************************************************)
Start ==
    [ calls        |-> <<>>,   \* the calls made, in order: [op, arg, out]
      done         |-> FALSE,  \* Reconcile has returned
      RequeueAfter |-> 0,      \* Result.RequeueAfter, in seconds
      err          |-> FALSE,  \* the returned error is non-nil
      request      |-> DefaultTSEEInstanceKey,  \* the request, held by reqLogger
      instance     |-> cr,     \* the LogCollector instance held by the invocation
      preDefault   |-> cr,     \* instance.DeepCopy() taken before fillDefaults
      s3Credential     |-> FALSE,  \* s3Credential != nil
      splunkCredential |-> "nil",  \* splunkCredential: "nil" or what it holds
      patched      |-> FALSE,  \* the defaults Patch was written
      stateWritten |-> FALSE,  \* Status.State = Ready was written
      rendered     |-> <<>> ]  \* the FluentdConfigurations handed to render.Fluentd

\* A call of the invocation: the operation, what it was called on or with, and
\* what it returned ("" when it returns nothing).
Call(s, op, arg, out) ==
    [s EXCEPT !.calls = Append(@, [op |-> op, arg |-> arg, out |-> out])]

Return(s, requeueAfter, err) ==
    [s EXCEPT !.done = TRUE, !.RequeueAfter = requeueAfter, !.err = err]

SetDegraded(s, msg) == Call(s, "SetDegraded", msg, "")

\* The index of the first call of this name, 0 when there is none.
FirstCall(s, op) ==
    IF \E i \in DOMAIN s.calls : s.calls[i].op = op
    THEN CHOOSE i \in DOMAIN s.calls :
            /\ s.calls[i].op = op
            /\ \A j \in DOMAIN s.calls : s.calls[j].op = op => i <= j
    ELSE 0

\* Whether the invocation made a call of this name.
Called(s, op) == \E i \in DOMAIN s.calls : s.calls[i].op = op

\* Whether the invocation made this call and got this outcome.
Returned(s, op, out) ==
    \E i \in DOMAIN s.calls : s.calls[i].op = op /\ s.calls[i].out = out

(***************************************************************************)
(* Reconcile, step by step.  Each step takes the invocation so far and     *)
(* returns it after the step; a step of an invocation that has returned    *)
(* does nothing.                                                           *)
(***************************************************************************)
\* Fetching the LogCollector with NotFound handled like any other failure of
\* the Get.  NotFoundExit tells the two apart.
FetchInstanceNotFoundFails(s) ==
    IF s.done THEN s ELSE
    LET g  == GetLogCollector
        s1 == Call(s, "GetLogCollector", "", g.err)
    IN IF g.err # "nil"
       THEN Return(SetDegraded(s1, "Error querying for LogCollector"), 0, TRUE)
       ELSE Call([s1 EXCEPT !.instance = g.instance], "OnCRFound", "", "")

\* Fetching the LogCollector the request names.  RequestIndependence tells
\* the two apart.
FetchInstanceOfRequest(s) ==
    IF s.done THEN s ELSE
    LET get == Get(s.request)
        err == IF get # "ok" THEN get
               ELSE IF cr.AdditionalStores /\ cr.Syslog /\ ~cr.SyslogEndpointValid
               THEN "invalid" ELSE "nil"
        s1  == Call(s, "GetLogCollector", "", err)
    IN IF err = "notfound"
       THEN Return(Call(s1, "OnCRNotFound", "", ""), 0, FALSE)
       ELSE IF err # "nil"
       THEN Return(SetDegraded(s1, "Error querying for LogCollector"), 0, TRUE)
       ELSE Call([s1 EXCEPT !.instance = cr], "OnCRFound", "", "")

\* Fetch the LogCollector instance.
FetchInstance(s) ==
    IF s.done THEN s ELSE
    LET g  == GetLogCollector
        s1 == Call(s, "GetLogCollector", "", g.err)
    IN IF g.err = "notfound"
       THEN Return(Call(s1, "OnCRNotFound", "", ""), 0, FALSE)
       ELSE IF g.err # "nil"
       THEN Return(SetDegraded(s1, "Error querying for LogCollector"), 0, TRUE)
       ELSE Call([s1 EXCEPT !.instance = g.instance], "OnCRFound", "", "")

\* strings.Join(fields, ", ").
RECURSIVE Join(_)
Join(fields) ==
    IF fields = <<>> THEN ""
    ELSE IF Len(fields) = 1 THEN fields[1]
    ELSE fields[1] \o ", " \o Join(Tail(fields))

\* The message of a failed defaults Patch.
FailedDefaultsMessage(fields) ==
    "Failed to set defaults for LogCollector fields: [" \o Join(fields) \o "]"

\* The defaulting step issuing its Patch whether fillDefaults changed a field
\* or not.  PatchIffDefaulted tells the two apart.
DefaultInstanceAlwaysPatches(s) ==
    IF s.done THEN s ELSE
    LET d  == fillDefaults(s.instance)
        s0 == [s EXCEPT !.preDefault = s.instance, !.instance = d.instance]
        s1 == Call(s0, "Patch", Join(d.modifiedFields), cluster.patch)
    IN IF cluster.patch # "ok"
       THEN Return(SetDegraded(s1, FailedDefaultsMessage(d.modifiedFields)), 0, TRUE)
       ELSE [s1 EXCEPT !.patched = TRUE]

\* Default fields on the LogCollector instance if needed.  The Patch is the
\* merge patch from the copy taken before fillDefaults to the instance after
\* it: the fields fillDefaults set, which the call records.
DefaultInstance(s) ==
    IF s.done THEN s ELSE
    LET d  == fillDefaults(s.instance)
        s0 == [s EXCEPT !.preDefault = s.instance, !.instance = d.instance]
    IN IF Len(d.modifiedFields) > 0
       THEN LET s1 == Call(s0, "Patch", Join(d.modifiedFields), cluster.patch)
            IN IF cluster.patch # "ok"
               THEN Return(SetDegraded(s1, FailedDefaultsMessage(d.modifiedFields)),
                           0, TRUE)
               ELSE [s1 EXCEPT !.patched = TRUE]
       ELSE s0

WaitAPIServer(s) ==
    IF s.done THEN s ELSE
    LET s1 == Call(s, "IsAPIServerReady", "", cluster.apiServer) IN
    IF cluster.apiServer # "ok"
    THEN Return(SetDegraded(s1, "Waiting for Tigera API server to be ready"), 0, FALSE)
    ELSE s1

\* The step without the check of the flag.  FlagOrdering tells the two apart.
WaitTierWatchUnchecked(s) == s

\* Validate that the tier watch is ready before querying the tier.
WaitTierWatch(s) ==
    IF s.done THEN s ELSE
    LET s1 == Call(s, "tierWatchReady.IsReady", "", IF tierWatchReady THEN "ok" ELSE "notready")
    IN IF ~tierWatchReady
       THEN Return(SetDegraded(s1, "Waiting for Tier watch to be established"),
                   RequeueWait, FALSE)
       ELSE s1

\* WaitTier without its returns: the status is set to degraded and the
\* invocation goes on.  WaitGates tells the two apart.
WaitTierNoReturn(s) ==
    IF s.done THEN s ELSE
    LET s1 == Call(s, "Get", "Tier", cluster.tier) IN
    IF cluster.tier = "notfound"
    THEN SetDegraded(s1, "Waiting for allow-tigera tier to be created")
    ELSE IF cluster.tier # "ok"
    THEN SetDegraded(s1, "Error querying allow-tigera tier")
    ELSE s1

\* Ensure the allow-tigera tier exists.
WaitTier(s) ==
    IF s.done THEN s ELSE
    LET s1 == Call(s, "Get", "Tier", cluster.tier) IN
    IF cluster.tier = "notfound"
    THEN Return(SetDegraded(s1, "Waiting for allow-tigera tier to be created"),
                RequeueWait, FALSE)
    ELSE IF cluster.tier # "ok"
    THEN Return(SetDegraded(s1, "Error querying allow-tigera tier"), 0, TRUE)
    ELSE s1

WaitLicenseAPI(s) ==
    IF s.done THEN s ELSE
    LET s1 == Call(s, "licenseAPIReady.IsReady", "",
                   IF licenseAPIReady THEN "ok" ELSE "notready")
    IN IF ~licenseAPIReady
       THEN Return(SetDegraded(s1, "Waiting for LicenseKeyAPI to be ready"),
                   RequeueWait, FALSE)
       ELSE s1

FetchLicenseKey(s) ==
    IF s.done THEN s ELSE
    LET s1 == Call(s, "FetchLicenseKey", "", cluster.license) IN
    IF cluster.license = "notfound"
    THEN Return(SetDegraded(s1, "License not found"), RequeueWait, FALSE)
    ELSE IF cluster.license # "ok"
    THEN Return(SetDegraded(s1, "Error querying license"), RequeueWait, FALSE)
    ELSE s1

\* Fetch the Installation instance.
GetInstallation(s) ==
    IF s.done THEN s ELSE
    LET s1 == Call(s, "GetInstallation", "", cluster.installation) IN
    IF cluster.installation = "notfound"
    THEN Return(SetDegraded(s1, "Installation not found"), 0, TRUE)
    ELSE IF cluster.installation = "error"
    THEN Return(SetDegraded(s1, "Error querying installation"), 0, TRUE)
    ELSE s1

GetElasticsearchClusterConfig(s) ==
    IF s.done THEN s ELSE
    LET s1 == Call(s, "GetElasticsearchClusterConfig", "", cluster.esClusterConfig) IN
    IF cluster.esClusterConfig = "notfound"
    THEN Return(SetDegraded(s1, "Elasticsearch cluster configuration is not available, waiting for it to become available"),
                0, FALSE)
    ELSE IF cluster.esClusterConfig # "ok"
    THEN Return(SetDegraded(s1, "Failed to get the elasticsearch cluster configuration"),
                0, TRUE)
    ELSE s1

GetNetworkingPullSecrets(s) ==
    IF s.done THEN s ELSE
    LET s1 == Call(s, "GetNetworkingPullSecrets", "", cluster.pullSecrets) IN
    IF cluster.pullSecrets # "ok"
    THEN Return(SetDegraded(s1, "Error retrieving pull secrets"), 0, TRUE)
    ELSE s1

ElasticsearchSecrets(s) ==
    IF s.done THEN s ELSE
    LET s1 == Call(s, "ElasticsearchSecrets", "", cluster.esSecrets) IN
    IF cluster.esSecrets = "notfound"
    THEN Return(SetDegraded(s1, "Elasticsearch secrets are not available yet, waiting until they become available"),
                RequeueSecrets, FALSE)
    ELSE IF cluster.esSecrets # "ok"
    THEN Return(SetDegraded(s1, "Failed to get Elasticsearch credentials"), 0, TRUE)
    ELSE s1

CreateCertificateManager(s) ==
    IF s.done THEN s ELSE
    LET s1 == Call(s, "certificatemanager.Create", "", cluster.tigeraCA) IN
    IF cluster.tigeraCA # "ok"
    THEN Return(SetDegraded(s1, "Unable to create the Tigera CA"), 0, TRUE)
    ELSE s1

GetOrCreateKeyPair(s) ==
    IF s.done THEN s ELSE
    LET s1 == Call(s, "GetOrCreateKeyPair", "", cluster.fluentdKeyPair) IN
    IF cluster.fluentdKeyPair # "ok"
    THEN Return(SetDegraded(s1, "Error creating TLS certificate"), 0, TRUE)
    ELSE s1

\* GetPrometheusCertificate with an empty Result when the certificate is not
\* there yet.  RetryByRequeueOrWatch tells the two apart.
GetPrometheusCertificateNoRequeue(s) ==
    IF s.done THEN s ELSE
    LET s1 == Call(s, "GetCertificate", "prometheus", cluster.prometheusCert) IN
    IF cluster.prometheusCert = "error"
    THEN Return(SetDegraded(s1, "Failed to get certificate"), 0, TRUE)
    ELSE IF cluster.prometheusCert = "notfound"
    THEN Return(SetDegraded(s1, "Prometheus secrets are not available yet, waiting until they become available"),
                0, FALSE)
    ELSE s1

GetPrometheusCertificate(s) ==
    IF s.done THEN s ELSE
    LET s1 == Call(s, "GetCertificate", "prometheus", cluster.prometheusCert) IN
    IF cluster.prometheusCert = "error"
    THEN Return(SetDegraded(s1, "Failed to get certificate"), 0, TRUE)
    ELSE IF cluster.prometheusCert = "notfound"
    THEN Return(SetDegraded(s1, "Prometheus secrets are not available yet, waiting until they become available"),
                RequeueSecrets, FALSE)
    ELSE s1

GetESGatewayCertificate(s) ==
    IF s.done THEN s ELSE
    LET s1 == Call(s, "GetCertificate", "esgw", cluster.esgwCert) IN
    IF cluster.esgwCert = "error"
    THEN Return(SetDegraded(s1, "Failed to retrieve / validate the Elasticsearch gateway certificate"),
                0, TRUE)
    ELSE IF cluster.esgwCert = "notfound"
    THEN Return(SetDegraded(s1, "Elasticsearch gateway certificate are not available yet, waiting until they become available"),
                0, FALSE)
    ELSE Call(s1, "AddToStatusManager", "", "")

\* The license gate setting Degraded without its return.  LicenseGate tells
\* the two apart.
CheckExportLogsNoReturn(s) ==
    IF s.done THEN s ELSE
    LET s1 == Call(s, "IsFeatureActive", "export-logs", cluster.exportLogs) IN
    IF cluster.exportLogs # "ok" /\ s.instance.AdditionalStores
    THEN SetDegraded(s1, "Feature is not active")
    ELSE s1

\* The license gate on the export-logs feature.  The error returned is the
\* one left by the last call, which succeeded: nil.
CheckExportLogs(s) ==
    IF s.done THEN s ELSE
    LET s1 == Call(s, "IsFeatureActive", "export-logs", cluster.exportLogs) IN
    IF cluster.exportLogs # "ok" /\ s.instance.AdditionalStores
    THEN Return(SetDegraded(s1, "Feature is not active"), 0, FALSE)
    ELSE s1

\* Whether the invocation reads this credential, and what it gets.
NeedsS3(s) == s.instance.AdditionalStores /\ s.instance.S3
NeedsSplunk(s) == s.instance.AdditionalStores /\ s.instance.Splunk

\* The S3 credential is read when the LogCollector has an S3 store; a secret
\* that does not exist leaves it nil.
getS3Credential(s) ==
    IF s.done \/ ~NeedsS3(s) THEN s ELSE
    LET s1 == Call(s, "getS3Credential", "", cluster.s3Secret) IN
    IF cluster.s3Secret = "error"
    THEN Return(SetDegraded(s1, "Error with S3 credential secret"), 0, TRUE)
    ELSE IF cluster.s3Secret = "notfound"
    THEN Return(SetDegraded(s1, "S3 credential secret does not exist"), 0, FALSE)
    ELSE [s1 EXCEPT !.s3Credential = TRUE]

\* The Splunk step going on with the nil credential of a secret that does not
\* exist.  CredentialsAtRender tells the two apart.
getSplunkCredentialNilPasses(s) ==
    IF s.done \/ ~NeedsSplunk(s) THEN s ELSE
    LET s1 == Call(s, "getSplunkCredential", "", cluster.splunkSecret) IN
    IF cluster.splunkSecret = "error"
    THEN Return(SetDegraded(s1, "Error with Splunk credential secret"), 0, TRUE)
    ELSE IF cluster.splunkSecret = "notfound"
    THEN SetDegraded(s1, "Splunk credential secret does not exist")
    ELSE [s1 EXCEPT !.splunkCredential = "token"]

\* The Splunk credential is read when the LogCollector has a Splunk store.
getSplunkCredential(s) ==
    IF s.done \/ ~NeedsSplunk(s) THEN s ELSE
    LET s1 == Call(s, "getSplunkCredential", "", cluster.splunkSecret) IN
    IF cluster.splunkSecret = "error"
    THEN Return(SetDegraded(s1, "Error with Splunk credential secret"), 0, TRUE)
    ELSE IF cluster.splunkSecret = "notfound"
    THEN Return(SetDegraded(s1, "Splunk credential secret does not exist"), 0, FALSE)
    ELSE [s1 EXCEPT !.splunkCredential = "token"]

\* Not finding a ManagementClusterConnection is not an error.
GetManagementClusterConnection(s) ==
    IF s.done THEN s ELSE
    LET s1 == Call(s, "GetManagementClusterConnection", "", cluster.mcc) IN
    IF cluster.mcc = "error"
    THEN Return(SetDegraded(s1, "An error occurred while looking for a ManagementClusterConnection"),
                0, TRUE)
    ELSE s1

managedCluster == cluster.mcc = "ok"

\* The validation looking for IDSEvents in the first log type only.
\* ManagedClusterNoIDSEvents tells the two apart.
ValidateSyslogLogTypesFirstOnly(s) ==
    IF s.done THEN s ELSE
    IF /\ s.instance.AdditionalStores
       /\ s.instance.Syslog
       /\ ~s.instance.LogTypesNil
       /\ managedCluster
       /\ s.instance.LogTypes # <<>>
       /\ s.instance.LogTypes[1] = "IDSEvents"
    THEN Return(SetDegraded(s, "IDSEvents option is not supported for Syslog config in a managed cluster"),
                0, FALSE)
    ELSE s

\* IDSEvents is not supported for Syslog in a managed cluster.
ValidateSyslogLogTypes(s) ==
    IF s.done THEN s ELSE
    IF /\ s.instance.AdditionalStores
       /\ s.instance.Syslog
       /\ ~s.instance.LogTypesNil
       /\ managedCluster
       /\ "IDSEvents" \in Range(s.instance.LogTypes)
    THEN Return(SetDegraded(s, "IDSEvents option is not supported for Syslog config in a managed cluster"),
                0, FALSE)
    ELSE s

getFluentdFilters(s) ==
    IF s.done THEN s ELSE
    LET s1 == Call(s, "getFluentdFilters", "", cluster.filters) IN
    IF cluster.filters = "error"
    THEN Return(SetDegraded(s1, "Error retrieving Fluentd filters"), 0, TRUE)
    ELSE s1

\* The EKS Cloudwatch configuration is read on EKS when the LogCollector asks for it.
NeedsEks(s) == cluster.installation = "eks" /\ s.instance.EksCloudwatchLog

getEksCloudwatchLogConfig(s) ==
    IF s.done \/ ~NeedsEks(s) THEN s ELSE
    LET s1 == Call(s, "getEksCloudwatchLogConfig", "", cluster.eksSecret) IN
    IF cluster.eksSecret = "error"
    THEN Return(SetDegraded(s1, "Error retrieving EKS Cloudwatch Logs configuration"),
                0, TRUE)
    ELSE s1

\* The FluentdConfiguration Reconcile builds for an OS type.  The metrics
\* server key pair is handed to the Linux component only.  The controller of
\* the model runs with usePSP set, in a cluster with one pull secret and one
\* Elasticsearch user secret, and reads Splunk credentials without certificate.
FluentdCfg(s, osType) ==
    [ LogCollector     |-> s.instance,
      ESSecrets        |-> 1,
      S3Credential     |-> s.s3Credential,
      SplkCredential   |-> s.splunkCredential,
      Filters          |-> cluster.filters = "ok",
      EKSConfig        |-> NeedsEks(s) /\ cluster.eksSecret = "ok",
      PullSecrets      |-> 1,
      Provider         |-> IF cluster.installation = "eks" THEN "EKS" ELSE "",
      OSType           |-> osType,
      MetricsServerTLS |-> osType = "linux",
      ManagedCluster   |-> managedCluster,
      UsePSP           |-> TRUE ]

\* Render the fluentd component for Linux and resolve its images.
RenderLinux(s) ==
    IF s.done THEN s ELSE
    LET s1 == Call([s EXCEPT !.rendered = Append(@, FluentdCfg(s, "linux"))],
                   "render.Fluentd", "linux", "")
        s2 == Call(s1, "ApplyImageSet", "linux", cluster.imageSet)
    IN IF cluster.imageSet # "ok"
       THEN Return(SetDegraded(s2, "Error with images from ImageSet"), 0, TRUE)
       ELSE s2

\* ApplyComponent without its return on an error.
\* ClearDegradedOnlyAfterApplies tells the two apart.
ApplyComponentNoReturn(s, comp, res) ==
    IF s.done THEN s ELSE
    LET s1 == Call(s, "CreateOrUpdateOrDelete", comp, cluster[res]) IN
    IF cluster[res] # "ok"
    THEN SetDegraded(s1, "Error creating / updating resource")
    ELSE s1

\* One iteration of the loop over the Linux Fluentd and the certificate
\* management components.
ApplyComponent(s, comp, res) ==
    IF s.done THEN s ELSE
    LET s1 == Call(s, "CreateOrUpdateOrDelete", comp, cluster[res]) IN
    IF cluster[res] # "ok"
    THEN Return(SetDegraded(s1, "Error creating / updating resource"), 0, TRUE)
    ELSE s1

\* The loop going on after a failed apply.  WindowsOrdering tells the two
\* apart.
ApplyLinuxNoReturn(s) ==
    ApplyComponentNoReturn(ApplyComponentNoReturn(s, "fluentd-linux", "applyFluentd"),
                           "certificate-management", "applyCerts")

\* The loop over the Linux Fluentd and the certificate management components.
ApplyLinux(s) ==
    ApplyComponent(ApplyComponent(s, "fluentd-linux", "applyFluentd"),
                   "certificate-management", "applyCerts")

\* hasWindowsNodes: a failure of the list is returned without a status change.
hasWindowsNodes(s) ==
    IF s.done THEN s ELSE
    LET s1 == Call(s, "hasWindowsNodes", "", cluster.nodes) IN
    IF cluster.nodes = "error" THEN Return(s1, 0, TRUE) ELSE s1

\* Render a fluentd component for Windows if the cluster has Windows nodes.
RenderWindows(s) ==
    IF s.done \/ cluster.nodes # "windows" THEN s ELSE
    LET s1 == Call([s EXCEPT !.rendered = Append(@, FluentdCfg(s, "windows"))],
                   "render.Fluentd", "windows", "")
        s2 == Call(s1, "ApplyImageSet", "windows", cluster.imageSetWindows)
    IN IF cluster.imageSetWindows # "ok"
       THEN Return(SetDegraded(s2, "Error with images from ImageSet"), 0, TRUE)
       ELSE ApplyComponent(s2, "fluentd-windows", "applyWindows")

\* ReportStatus without the IsAvailable check.  ReadyOnlyWhenAvailable tells
\* the two apart.
ReportStatusUnchecked(s) ==
    IF s.done THEN s ELSE
    LET s1 == Call(Call(s, "ClearDegraded", "", ""), "IsAvailable", "", cluster.available)
        s2 == Call([s1 EXCEPT !.instance.State = "Ready"],
                   "Status.Update", "Ready", cluster.statusUpdate)
    IN IF cluster.statusUpdate # "ok"
       THEN Return(s2, 0, TRUE)
       ELSE Return([s2 EXCEPT !.stateWritten = TRUE], 0, FALSE)

\* Clear the degraded bit, and update the CR status once everything is available.
ReportStatus(s) ==
    IF s.done THEN s ELSE
    LET s1 == Call(Call(s, "ClearDegraded", "", ""), "IsAvailable", "", cluster.available)
    IN IF cluster.available # "ok"
       THEN Return(s1, RequeueAvailable, FALSE)
       ELSE LET s2 == Call([s1 EXCEPT !.instance.State = "Ready"],
                           "Status.Update", "Ready", cluster.statusUpdate)
            IN IF cluster.statusUpdate # "ok"
               THEN Return(s2, 0, TRUE)
               ELSE Return([s2 EXCEPT !.stateWritten = TRUE], 0, FALSE)

\* The whole of Reconcile: the invocation when it returns.  Each statement is
\* applied once to the invocation the statements before it left.
ReconcileFrom(start) ==
    LET s0  == {start}
        s1  == {FetchInstance(s) : s \in s0}
        s2  == {DefaultInstance(s) : s \in s1}
        s3  == {WaitAPIServer(s) : s \in s2}
        s4  == {WaitTierWatch(s) : s \in s3}
        s5  == {WaitTier(s) : s \in s4}
        s6  == {WaitLicenseAPI(s) : s \in s5}
        s7  == {FetchLicenseKey(s) : s \in s6}
        s8  == {GetInstallation(s) : s \in s7}
        s9  == {GetElasticsearchClusterConfig(s) : s \in s8}
        s10 == {GetNetworkingPullSecrets(s) : s \in s9}
        s11 == {ElasticsearchSecrets(s) : s \in s10}
        s12 == {CreateCertificateManager(s) : s \in s11}
        s13 == {GetOrCreateKeyPair(s) : s \in s12}
        s14 == {GetPrometheusCertificate(s) : s \in s13}
        s15 == {GetESGatewayCertificate(s) : s \in s14}
        s16 == {CheckExportLogs(s) : s \in s15}
        s17 == {getS3Credential(s) : s \in s16}
        s18 == {getSplunkCredential(s) : s \in s17}
        s19 == {GetManagementClusterConnection(s) : s \in s18}
        s20 == {ValidateSyslogLogTypes(s) : s \in s19}
        s21 == {getFluentdFilters(s) : s \in s20}
        s22 == {getEksCloudwatchLogConfig(s) : s \in s21}
        s23 == {RenderLinux(s) : s \in s22}
        s24 == {ApplyLinux(s) : s \in s23}
        s25 == {hasWindowsNodes(s) : s \in s24}
        s26 == {RenderWindows(s) : s \in s25}
        s27 == {ReportStatus(s) : s \in s26}
    IN CHOOSE r \in s27 : TRUE

\* The invocation for a request of the LogCollector, and for any request.
ReconcileRun == ReconcileFrom(Start)

ReconcileRequest(request) == ReconcileFrom([Start EXCEPT !.request = request])

(***************************************************************************)
(* The watches add() registers, and those the goroutines started by Add    *)
(* register once the Tier and LicenseKey APIs are served.                  *)
(***************************************************************************)
WatchedAtStartup ==
    {"logCollector", "apiServer", "installation", "imageSet", "imageSetWindows",
     "esSecrets", "esgwCert", "s3Secret", "eksSecret", "splunkSecret",
     "fluentdKeyPair", "filters", "esClusterConfig", "nodes"}

Watched(r) ==
    \/ r \in WatchedAtStartup
    \/ r = "tier" /\ tierWatchReady
    \/ r \in {"license", "exportLogs"} /\ licenseAPIReady

NoInvocation ==
    [ calls |-> <<>>, done |-> FALSE, RequeueAfter |-> 0, err |-> FALSE,
      request |-> DefaultTSEEInstanceKey,
      instance |-> LC("nil", FALSE, FALSE, FALSE, TRUE, TRUE, <<>>, FALSE, FALSE),
      preDefault |-> LC("nil", FALSE, FALSE, FALSE, TRUE, TRUE, <<>>, FALSE, FALSE),
      s3Credential |-> FALSE, splunkCredential |-> "nil",
      patched |-> FALSE, stateWritten |-> FALSE, rendered |-> <<>> ]

(***************************************************************************)
(* The controller's actions.                                               *)
(***************************************************************************)
\* The LogCollector left in the cluster by an invocation: the defaults when the
\* Patch was written, Status.State when the status update was written.
InstanceWritten(r) ==
    IF r.stateWritten THEN r.instance
    ELSE IF r.patched THEN [r.instance EXCEPT !.State = cr.State]
    ELSE cr

\* controller-runtime takes a queued request and calls Reconcile.  A returned
\* error or RequeueAfter schedules the request again; the invocation's own
\* writes to the LogCollector come back as events of the primary watch.
Reconcile ==
    /\ queue.queued
    /\ LET r == ReconcileRun IN
        /\ inv' = r
        /\ prev' = inv
        /\ cr' = InstanceWritten(r)
        /\ queue' = [ queued |-> InstanceWritten(r) # cr,
                      timer  |-> queue.timer \/ r.err \/ r.RequeueAfter > 0 ]
    /\ UNCHANGED <<cluster, tierWatchReady, licenseAPIReady>>
    /\ UNCHANGED <<esVars, flVars, nsVars, fnVars>>

\* A requeue (RequeueAfter, or the rate-limited retry of an error) comes due.
RequeueTimer ==
    /\ queue.timer
    /\ queue' = [queued |-> TRUE, timer |-> FALSE]
    /\ UNCHANGED <<cluster, cr, tierWatchReady, licenseAPIReady, inv, prev>>
    /\ UNCHANGED <<esVars, flVars, nsVars, fnVars>>

\* Something in the cluster changes; a watch registered on it queues a request.
ClusterChange ==
    /\ \E r \in Res : \E v \in Outcomes[r] :
        /\ v # cluster[r]
        /\ [cluster EXCEPT ![r] = v] \in ClusterStates
        /\ cluster' = [cluster EXCEPT ![r] = v]
        /\ queue' = [queue EXCEPT !.queued = @ \/ Watched(r)]
    /\ inv' = NoInvocation
    /\ prev' = NoInvocation
    /\ UNCHANGED <<cr, tierWatchReady, licenseAPIReady>>
    /\ UNCHANGED <<esVars, flVars, nsVars, fnVars>>

\* An event of a watched object that changes nothing Reconcile reads (a Node's
\* status, for one) queues a request.
NodeEvent ==
    /\ ~queue.queued
    /\ queue' = [queue EXCEPT !.queued = TRUE]
    /\ UNCHANGED <<cluster, cr, tierWatchReady, licenseAPIReady, inv, prev>>
    /\ UNCHANGED <<esVars, flVars, nsVars, fnVars>>

\* utils.WaitToAddTierWatch establishes the Tier watch and marks the flag.
TierWatchEstablished ==
    /\ ~tierWatchReady
    /\ tierWatchReady' = TRUE
    /\ inv' = NoInvocation
    /\ prev' = NoInvocation
    /\ UNCHANGED <<cluster, cr, licenseAPIReady, queue>>
    /\ UNCHANGED <<esVars, flVars, nsVars, fnVars>>

\* utils.WaitToAddLicenseKeyWatch establishes the LicenseKey watch and marks the flag.
LicenseWatchEstablished ==
    /\ ~licenseAPIReady
    /\ licenseAPIReady' = TRUE
    /\ inv' = NoInvocation
    /\ prev' = NoInvocation
    /\ UNCHANGED <<cluster, cr, tierWatchReady, queue>>
    /\ UNCHANGED <<esVars, flVars, nsVars, fnVars>>

RenderIdle ==
    /\ es = <<>> /\ esOut = <<>>
    /\ fl = <<>> /\ flOut = <<>>
    /\ ns = <<>> /\ nsOut = <<>>
    /\ call = <<>> /\ ret = <<>>

ControllerInit ==
    /\ cluster \in ClusterStates
    /\ cr \in LogCollectors
    /\ tierWatchReady = FALSE
    /\ licenseAPIReady = FALSE
    /\ queue = [queued |-> TRUE, timer |-> FALSE]
    /\ inv = NoInvocation
    /\ prev = NoInvocation

Init == ControllerInit /\ RenderIdle

Next ==
    \/ Reconcile
    \/ RequeueTimer
    \/ ClusterChange
    \/ NodeEvent
    \/ TierWatchEstablished
    \/ LicenseWatchEstablished

Spec == Init /\ [][Next]_vars

(***************************************************************************)
(* Properties of the controller.                                           *)
(***************************************************************************)
\* The wait gates of Reconcile: the call and the outcome that lets it pass.
Gates ==
    { <<"IsAPIServerReady", "">>, <<"tierWatchReady.IsReady", "">>, <<"Get", "Tier">>,
      <<"licenseAPIReady.IsReady", "">>, <<"FetchLicenseKey", "">> }

\* Whether every gate was passed before the i-th call of the invocation.
GatesPassedBefore(s, i) ==
    \A g \in Gates : \E j \in 1..(i - 1) :
        /\ s.calls[j].op = g[1]
        /\ s.calls[j].arg = g[2]
        /\ s.calls[j].out = "ok"

\* C1: in one Reconcile invocation no component is rendered (render.Fluentd)
\* or applied (CreateOrUpdateOrDelete) unless, earlier in that invocation, the
\* API server was reported ready, the tier-watch flag was set, the allow-tigera
\* Tier was found, the license-API flag was set and the license was fetched.
WaitGates ==
    \A i \in DOMAIN inv.calls :
        inv.calls[i].op \in {"render.Fluentd", "CreateOrUpdateOrDelete"}
            => GatesPassedBefore(inv, i)

\* An invocation that rendered and applied the Linux component.
WaitGatesWitness ==
    /\ inv.done
    /\ Called(inv, "render.Fluentd")
    /\ Called(inv, "CreateOrUpdateOrDelete")

\* Whether the invocation applied the component and the apply succeeded.
AppliedOk(s, comp) ==
    \E i \in DOMAIN s.calls :
        /\ s.calls[i].op = "CreateOrUpdateOrDelete"
        /\ s.calls[i].arg = comp
        /\ s.calls[i].out = "ok"

\* C6: ClearDegraded is called only in an invocation in which every
\* CreateOrUpdateOrDelete call succeeded and came before it: the Linux Fluentd
\* component, the certificate-management component and, with Windows nodes,
\* the Windows Fluentd component.
ClearDegradedOnlyAfterApplies ==
    Called(inv, "ClearDegraded") =>
        /\ \A i \in DOMAIN inv.calls :
              inv.calls[i].op = "CreateOrUpdateOrDelete" =>
                  /\ inv.calls[i].out = "ok"
                  /\ i < FirstCall(inv, "ClearDegraded")
        /\ AppliedOk(inv, "fluentd-linux")
        /\ AppliedOk(inv, "certificate-management")
        /\ cluster.nodes = "windows" => AppliedOk(inv, "fluentd-windows")

\* An invocation on a cluster with Windows nodes that cleared the degraded bit.
ClearDegradedWitness ==
    /\ cluster.nodes = "windows"
    /\ Called(inv, "ClearDegraded")

\* What C7 says of one invocation.
ReadyWritten(s) ==
    /\ Called(s, "Status.Update") =>
          /\ Called(s, "ClearDegraded")
          /\ FirstCall(s, "ClearDegraded") < FirstCall(s, "Status.Update")
          /\ Returned(s, "IsAvailable", "ok")
    /\ s.stateWritten => Called(s, "Status.Update")
    /\ Returned(s, "IsAvailable", "notready") =>
          /\ ~Called(s, "Status.Update")
          /\ ~s.stateWritten
          /\ s.done
          /\ ~s.err
          /\ s.RequeueAfter = 30

\* C7: Status.State = Ready is written only by an invocation that called
\* ClearDegraded and was told IsAvailable (Status.State changes in no other
\* step); an invocation told that the status manager is not available updates
\* no status and returns a nil error with RequeueAfter 30 s.
ReadyOnlyWhenAvailable ==
    /\ []ReadyWritten(inv)
    /\ [][cr'.State # cr.State =>
             /\ cr'.State = "Ready"
             /\ inv'.stateWritten
             /\ Called(inv', "ClearDegraded")
             /\ Returned(inv', "IsAvailable", "ok")]_vars

\* The invocation that wrote Status.State = Ready.
ReadyWitness ==
    /\ cr.State = "Ready"
    /\ inv.stateWritten
    /\ Returned(inv, "IsAvailable", "ok")

\* The message of the last SetDegraded of the invocation, "" without one.
LastDegraded(s) ==
    LET D == {i \in DOMAIN s.calls : s.calls[i].op = "SetDegraded"} IN
    IF D = {} THEN ""
    ELSE s.calls[CHOOSE i \in D : \A j \in D : j <= i].arg

\* An exit that leaves the status degraded and returns a nil error.
DegradedNilErrorExit(s) ==
    /\ s.done
    /\ ~s.err
    /\ Called(s, "SetDegraded")
    /\ ~Called(s, "ClearDegraded")

\* The resource whose change ends the wait of a degraded exit.
Awaited(msg) ==
    CASE msg = "Waiting for Tigera API server to be ready" -> "apiServer"
      [] msg = "Waiting for Tier watch to be established" -> "tierWatch"
      [] msg = "Waiting for allow-tigera tier to be created" -> "tier"
      [] msg = "Waiting for LicenseKeyAPI to be ready" -> "licenseWatch"
      [] msg = "License not found" -> "license"
      [] msg = "Error querying license" -> "license"
      [] msg = "Elasticsearch cluster configuration is not available, waiting for it to become available"
            -> "esClusterConfig"
      [] msg = "Elasticsearch secrets are not available yet, waiting until they become available"
            -> "esSecrets"
      [] msg = "Prometheus secrets are not available yet, waiting until they become available"
            -> "prometheusCert"
      [] msg = "Elasticsearch gateway certificate are not available yet, waiting until they become available"
            -> "esgwCert"
      [] msg = "Feature is not active" -> "exportLogs"
      [] msg = "S3 credential secret does not exist" -> "s3Secret"
      [] msg = "Splunk credential secret does not exist" -> "splunkSecret"
      [] msg = "IDSEvents option is not supported for Syslog config in a managed cluster"
            -> "logCollector"
      [] OTHER -> ""

\* C8 as stated: every exit that sets the status to Degraded and returns a nil
\* error returns a Result with RequeueAfter greater than zero.
RetryByRequeue ==
    DegradedNilErrorExit(inv) => inv.RequeueAfter > 0

\* C8, amended: every exit that sets the status to Degraded and returns a nil
\* error either returns RequeueAfter greater than zero or waits for the change
\* of an object on which the controller has a watch registered.
RetryByRequeueOrWatch ==
    DegradedNilErrorExit(inv) =>
        \/ inv.RequeueAfter > 0
        \/ Watched(Awaited(LastDegraded(inv)))

\* A degraded exit with a nil error and an empty Result.
RetryWitness ==
    /\ DegradedNilErrorExit(inv)
    /\ inv.RequeueAfter = 0
    /\ Watched(Awaited(LastDegraded(inv)))

IsStatusCall(c) ==
    c.op \in {"OnCRFound", "OnCRNotFound", "AddToStatusManager", "SetDegraded",
              "ClearDegraded", "IsAvailable"}

IsApplyCall(c) == c.op = "CreateOrUpdateOrDelete"

\* The objects of the components the invocation rendered.
RenderedObjects(s) == [i \in DOMAIN s.rendered |-> FluentdObjects(s.rendered[i])]

\* C3: two consecutive invocations with no change of the cluster in between
\* return the same (Result, error), make the same status-manager calls and
\* apply the same components with the same rendered objects; after a
\* successful defaults Patch the next invocation issues no Patch.
ReEntrant ==
    (prev.done /\ inv.done) =>
        /\ inv.RequeueAfter = prev.RequeueAfter
        /\ inv.err = prev.err
        /\ SelectSeq(inv.calls, IsStatusCall) = SelectSeq(prev.calls, IsStatusCall)
        /\ SelectSeq(inv.calls, IsApplyCall) = SelectSeq(prev.calls, IsApplyCall)
        /\ RenderedObjects(inv) = RenderedObjects(prev)
        /\ prev.patched => ~Called(inv, "Patch")

\* A second invocation that applied components after the first one patched
\* the defaults.
ReEntrantWitness ==
    /\ prev.done
    /\ inv.done
    /\ prev.patched
    /\ Called(prev, "CreateOrUpdateOrDelete")
    /\ Called(inv, "CreateOrUpdateOrDelete")

(***************************************************************************)
(* Convergence.  controller-runtime hands every queued request to          *)
(* Reconcile and lets every requeue come due; the goroutines started by    *)
(* Add establish the Tier and LicenseKey watches once the APIs are served. *)
(* Events of watched objects that change nothing Reconcile reads, and the  *)
(* changes of the cluster, need not happen.                                *)
(***************************************************************************)
LiveSpec ==
    /\ Spec
    /\ WF_vars(Reconcile)
    /\ WF_vars(RequeueTimer)
    /\ WF_vars(TierWatchEstablished)
    /\ WF_vars(LicenseWatchEstablished)

\* The LogCollector exists and is accepted, every prerequisite is available,
\* the applies and the status update succeed and the status manager reports
\* available.
Prerequisites ==
    /\ Faults(cluster) = {}
    /\ GetLogCollector.err = "nil"

\* C2: if every prerequisite eventually becomes and stays available, then
\* under fair delivery of requeues and of the registered watches' events some
\* invocation reaches ClearDegraded and Status.State is set to Ready.
Convergence ==
    <>[]Prerequisites =>
        /\ <>Called(inv, "ClearDegraded")
        /\ <>(cr.State = "Ready")

(***************************************************************************)
(* The renderers on their own: components built from one configuration,    *)
(* each call of Objects() reading the configuration as the calls before    *)
(* left it.                                                                *)
(***************************************************************************)
ControllerIdle ==
    /\ cluster = Baseline
    /\ cr = NoInvocation.instance
    /\ tierWatchReady = FALSE
    /\ licenseAPIReady = FALSE
    /\ queue = [queued |-> FALSE, timer |-> FALSE]
    /\ inv = NoInvocation
    /\ prev = NoInvocation

LogStorageConfigs ==
    { ESConfig(TRUE, e, k, FALSE, "", TRUE, FALSE, 0, NoKeyStoreSecret, "nil", FALSE,
               FALSE, FALSE) :
        e \in {"nil", "live", "deleting"}, k \in {"nil", "live", "deleting"} }
    \cup
    { ESConfig(TRUE, x[1], x[2], m, p, u, f, 1, NoKeyStoreSecret, "nil", t, t, FALSE) :
        x \in {<<"live", "live">>, <<"deleting", "live">>, <<"nil", "deleting">>},
        m \in BOOLEAN, p \in {"", "DockerEE", "OpenShift"}, u \in BOOLEAN,
        f \in BOOLEAN, t \in BOOLEAN }
    \cup
    { [ESConfig(FALSE, "live", "live", m, "", u, f, 1, NoKeyStoreSecret, v, FALSE, t, FALSE)
          EXCEPT !.KbService = "ExternalName"] :
        m \in BOOLEAN, u \in BOOLEAN, f \in BOOLEAN, v \in {"nil", "ExternalName"},
        t \in BOOLEAN }
    \cup
    { ESConfig(FALSE, "live", "live", m, p, u, f, c, s, v, t[1], t[2], r) :
        m \in BOOLEAN, p \in {"", "DockerEE", "OpenShift"}, u \in BOOLEAN,
        f \in BOOLEAN, c \in 0..1, s \in KeyStoreSecrets, v \in {"nil", "ExternalName"},
        t \in {<<FALSE, FALSE>>, <<FALSE, TRUE>>, <<TRUE, TRUE>>}, r \in BOOLEAN }

\* The FluentdConfigurations of a LogCollector that GetLogCollector accepts,
\* after fillDefaults: a credential is there for every store that needs one,
\* the metrics server key pair on Linux.
FluentdConfigs ==
    { [ LogCollector     |-> fillDefaults(l).instance,
        ESSecrets        |-> 1,
        S3Credential     |-> l.AdditionalStores /\ l.S3,
        SplkCredential   |-> IF l.AdditionalStores /\ l.Splunk THEN k ELSE "nil",
        Filters          |-> x[1],
        EKSConfig        |-> x[2],
        PullSecrets      |-> 1,
        Provider         |-> p,
        OSType           |-> o,
        MetricsServerTLS |-> o = "linux",
        ManagedCluster   |-> x[3],
        UsePSP           |-> x[4] ] :
        l \in {c \in LogCollectors : c.SyslogEndpointValid},
        k \in {"token", "token+cert"},
        p \in {"", "GKE", "OpenShift", "EKS"},
        o \in {"linux", "windows"},
        x \in BOOLEAN \X BOOLEAN \X BOOLEAN \X BOOLEAN }

BaselineLogStorage ==
    ESConfig(FALSE, "live", "live", FALSE, "", TRUE, FALSE, 0, NoKeyStoreSecret, "nil",
             FALSE, FALSE, FALSE)

BaselineFluentd ==
    CHOOSE c \in FluentdConfigs :
        /\ ~c.LogCollector.AdditionalStores
        /\ c.LogCollector.CollectProcessPath = "Enabled"
        /\ ~c.LogCollector.EksCloudwatchLog
        /\ c.Provider = "" /\ c.OSType = "linux" /\ c.SplkCredential = "nil"
        /\ c.Filters /\ ~c.EKSConfig /\ ~c.ManagedCluster /\ c.UsePSP

\* A LogStorage or a Fluentd configuration is handed to the renderer.
InitRender ==
    /\ ControllerIdle
    /\ \/ es \in LogStorageConfigs /\ fl = BaselineFluentd
       \/ es = BaselineLogStorage /\ fl \in FluentdConfigs
    /\ esOut = <<>>
    /\ flOut = <<>>
    /\ ns = <<>>
    /\ nsOut = <<>>
    /\ call = <<>> /\ ret = <<>>

\* Objects() on a LogStorage component of the configuration.
LogStorageRender ==
    /\ Len(esOut) < MaxRenders
    /\ esOut' = Append(esOut, LogStorageObjects(es))
    /\ es' = ConfigAfterObjects(es)
    /\ UNCHANGED <<ctlVars, flVars, nsVars, fnVars>>

\* Objects() on a Fluentd component of the configuration, which it only reads.
FluentdRender ==
    /\ Len(flOut) < MaxRenders
    /\ flOut' = Append(flOut, FluentdObjects(fl))
    /\ fl' = fl
    /\ UNCHANGED <<ctlVars, esVars, nsVars, fnVars>>

NextRender ==
    \/ LogStorageRender
    \/ FluentdRender

SpecRender == InitRender /\ [][NextRender]_vars

\* C4: Objects() on components built from equal configurations returns equal
\* create lists and equal delete lists, in the same order, for the Fluentd
\* and for the LogStorage renderer.
RendererDeterministic ==
    /\ \A i, j \in DOMAIN esOut : esOut[i] = esOut[j]
    /\ \A i, j \in DOMAIN flOut : flOut[i] = flOut[j]

\* C5: a call of Objects() leaves the configuration, and every object the
\* configuration points to, as it was.
RendererPure ==
    [][(esOut' # esOut \/ flOut' # flOut) => (es' = es /\ fl' = fl)]_vars

(***************************************************************************)
(* nodeSets() on its own.                                                  *)
(***************************************************************************)
\* The lists of at most n NodeSets, each with SelectionAttributes or without.
RECURSIVE NodeSetLists(_)
NodeSetLists(n) ==
    IF n = 0 THEN {<<>>}
    ELSE LET S == NodeSetLists(n - 1) IN
         S \cup {Append(l, a) : l \in {x \in S : Len(x) = n - 1}, a \in BOOLEAN}

\* Spec.Nodes of a LogStorage: nil, or a Count and the NodeSets.
NodeConfigs ==
    { [ present |-> FALSE, Count |-> 0, NodeSets |-> <<>>,
        ResourceRequirements |-> NoResourceRequirements,
        StorageClassName |-> "tigera-elasticsearch" ] }
    \cup { [ present |-> TRUE, Count |-> c, NodeSets |-> l,
            ResourceRequirements |-> NoResourceRequirements,
            StorageClassName |-> "tigera-elasticsearch" ] :
             c \in 0..MaxCount, l \in NodeSetLists(MaxNodeSets) }

InitNodeSets ==
    /\ ControllerIdle
    /\ es = <<>> /\ esOut = <<>>
    /\ fl = <<>> /\ flOut = <<>>
    /\ ns \in NodeConfigs
    /\ nsOut = <<>>
    /\ call = <<>> /\ ret = <<>>

\* The Elasticsearch CR is rendered: nodeSets() runs on Spec.Nodes.
RenderNodeSets ==
    /\ nsOut = <<>>
    /\ nsOut' = <<nodeSets(ns)>>
    /\ UNCHANGED <<ctlVars, esVars, flVars, ns, fnVars>>

NextNodeSets == RenderNodeSets

SpecNodeSets == InitNodeSets /\ [][NextNodeSets]_vars

RECURSIVE SumCounts(_)
SumCounts(sets) == IF sets = <<>> THEN 0 ELSE Head(sets).Count + SumCounts(Tail(sets))

Min(a, b) == IF a <= b THEN a ELSE b

NoEmptyNodeSet ==
    \A k \in DOMAIN nsOut : \A i \in DOMAIN nsOut[k] : nsOut[k][i].Count >= 1

(***************************************************************************)
(* The names of the NodeSets over the renders of a LogStorage that is      *)
(* updated in between.                                                     *)
(***************************************************************************)
\* The LogStorage specs: the nodes, the storage asked for them and the class.
LogStorageSpecs ==
    { [ present |-> TRUE, Count |-> n[1], NodeSets |-> n[2],
        ResourceRequirements |-> r, StorageClassName |-> c ] :
        n \in {<<1, <<>>>>, <<1, <<FALSE, TRUE>>>>, <<3, <<FALSE, TRUE>>>>},
        r \in {NoResourceRequirements}
              \cup {[present |-> TRUE, Limits |-> q[1], Requests |-> q[2]] :
                       q \in {<<5, 0>>, <<0, 12>>, <<20, 12>>, <<0, 10>>}},
        c \in {"tigera-elasticsearch", "fast"} }

\* ns is the LogStorage as it was at each render, nsOut the NodeSets rendered.
InitNames ==
    /\ ControllerIdle
    /\ es = <<>> /\ esOut = <<>>
    /\ fl = <<>> /\ flOut = <<>>
    /\ ns \in {<<l>> : l \in LogStorageSpecs}
    /\ nsOut = <<>>
    /\ call = <<>> /\ ret = <<>>

\* The Elasticsearch CR is rendered from the LogStorage as it is now.
RenderNames ==
    /\ Len(nsOut) < Len(ns)
    /\ nsOut' = Append(nsOut, nodeSets(ns[Len(ns)]))
    /\ UNCHANGED <<ctlVars, esVars, flVars, ns, fnVars>>

\* The LogStorage is updated, or left as it is, before the next render.
UpdateLogStorage ==
    /\ Len(nsOut) = Len(ns)
    /\ Len(ns) < MaxRenders
    /\ \E l \in LogStorageSpecs : ns' = Append(ns, l)
    /\ UNCHANGED <<ctlVars, esVars, flVars, nsOut, fnVars>>

NextNames ==
    \/ RenderNames
    \/ UpdateLogStorage

SpecNames == InitNames /\ [][NextNames]_vars

\* C11: within a render every NodeSet is named by the hash of the one volume
\* claim template, the bare hash when Spec.Nodes.NodeSets is empty and
\* "<hash>-<index>" otherwise, so that the names of a render are pairwise
\* distinct; and over the renders NodeSets in the same place have the same
\* name exactly when the templates are equal: equal templates give equal
\* names, another storage request, limit or class gives another hash.
NodeSetNaming ==
    /\ \A k \in DOMAIN nsOut :
          LET hash == nodeSetName(pvcTemplate(ns[k])) IN
          /\ \A i \in DOMAIN nsOut[k] :
                nsOut[k][i].Name = IF Len(ns[k].NodeSets) = 0 THEN hash
                                   ELSE hash \o "-" \o ToString(i - 1)
          /\ \A i, j \in DOMAIN nsOut[k] :
                i # j => nsOut[k][i].Name # nsOut[k][j].Name
    /\ \A k, l \in DOMAIN nsOut :
          \A i \in DOMAIN nsOut[k] \cap DOMAIN nsOut[l] :
             (Len(ns[k].NodeSets) = 0) = (Len(ns[l].NodeSets) = 0) =>
                ( (nsOut[k][i].Name = nsOut[l][i].Name)
                  <=> (pvcTemplate(ns[k]) = pvcTemplate(ns[l])) )

\* Two renders of two NodeSets each, the storage class changed in between.
NodeSetNamingWitness ==
    /\ Len(nsOut) = 2
    /\ Len(nsOut[1]) = 2 /\ Len(nsOut[2]) = 2
    /\ ns[1].StorageClassName # ns[2].StorageClassName
    /\ ns[1].ResourceRequirements = ns[2].ResourceRequirements
    /\ nsOut[1][1].Name # nsOut[2][1].Name

(***************************************************************************)
(* memoryQuantityToJVMHeapSize(): the heap of the Elasticsearch JVM from   *)
(* the memory request.  A number of bytes is written in base 1024, the     *)
(* least significant digit first: <<b, k, m, g>> is                        *)
(* b + 1024 * k + 1024^2 * m + 1024^3 * g.                                 *)
(***************************************************************************)
\* QuoRound(raw, 2, 0, RoundFloor): half of the quantity, rounded down.
HalveFloor(d) ==
    LET m3 == (d[4] % 2) * 1024 + d[3]
        m2 == (m3 % 2) * 1024 + d[2]
        m1 == (m2 % 2) * 1024 + d[1]
    IN << m1 \div 2, m2 \div 2, m3 \div 2, d[4] \div 2 >>

\* QuoRound(halved, 1024, 0, RoundFloor) and Mul(factor, 1024): rounded down
\* to a multiple of 1024.
RoundTo1024(d) == << 0, d[2], d[3], d[4] >>

\* Dec.Cmp: -1, 0 or 1.
RECURSIVE CmpFrom(_, _, _)
CmpFrom(a, b, i) ==
    IF i = 0 THEN 0
    ELSE IF a[i] < b[i] THEN -1
    ELSE IF a[i] > b[i] THEN 1
    ELSE CmpFrom(a, b, i - 1)

Cmp(a, b) == CmpFrom(a, b, 4)

\* inf.NewDec(2097152, 0): 2 Mi.
minLimit == << 0, 0, 2, 0 >>
\* inf.NewDec(27917287424, 0): 26 Gi.
maxLimit == << 0, 0, 0, 26 >>

\* The rounded value whatever its size.
LimitHeapNot(roundedToNearest) == roundedToNearest

\* The rounded value, or the limit it is beyond.
LimitHeap(roundedToNearest) ==
    LET atLeastMin == IF Cmp(roundedToNearest, minLimit) < 0
                      THEN minLimit ELSE roundedToNearest
    IN IF Cmp(roundedToNearest, maxLimit) > 0 THEN maxLimit ELSE atLeastMin

\* resource.NewQuantity(n, BinarySI).String(): the largest binary unit of
\* which the number is a whole multiple, and that multiple.
BinarySIString(d) ==
    IF d[1] # 0 THEN [n |-> d[1] + 1024 * (d[2] + 1024 * (d[3] + 1024 * d[4])), unit |-> ""]
    ELSE IF d[2] # 0 THEN [n |-> d[2] + 1024 * (d[3] + 1024 * d[4]), unit |-> "Ki"]
    ELSE IF d[3] # 0 THEN [n |-> d[3] + 1024 * d[4], unit |-> "Mi"]
    ELSE IF d[4] # 0 THEN [n |-> d[4], unit |-> "Gi"]
    ELSE [n |-> 0, unit |-> ""]

\* strings.TrimSuffix(s, "i").
TrimSuffix(s) ==
    [s EXCEPT !.unit = CASE @ = "Ki" -> "K" [] @ = "Mi" -> "M" [] @ = "Gi" -> "G" [] OTHER -> @]

\* memoryQuantityToJVMHeapSize(q): the number and the unit letter of the
\* -Xms and -Xmx options.
memoryQuantityToJVMHeapSize(q) ==
    LET halvedQuantity == HalveFloor(q)
        roundedToNearest == RoundTo1024(halvedQuantity)
    IN TrimSuffix(BinarySIString(LimitHeap(roundedToNearest)))

\* The memory requests of the model: every size of interest in each digit.
MemoryQuantities ==
    { <<b, k, m, g>> : b \in {0, 1, 1023}, k \in {0, 1, 2, 1023},
                       m \in {0, 3, 4, 5, 1023}, g \in {0, 1, 4, 51, 52, 53, MaxMemoryGi} }

(***************************************************************************)
(* AutoDiscoverProvider(): the provider from what the API server answers.  *)
(* A probe is the answer to each of the four queries: the API groups (or   *)
(* an error), the master nodes ("error", "none" or "ucp" when one carries a *)
(* com.docker.ucp label), the two ConfigMaps ("error", "notfound",         *)
(* "found").                                                               *)
(***************************************************************************)
ProviderNone == ""

\* autodetectFromGroup(): the providers whose API group is served.
RECURSIVE ProvidersOfGroups(_)
ProvidersOfGroups(groups) ==
    IF groups = <<>> THEN <<>>
    ELSE (IF Head(groups) = "config.openshift.io" THEN <<"OpenShift">> ELSE <<>>)
         \o (IF Head(groups) = "networking.gke.io" THEN <<"GKE">> ELSE <<>>)
         \o ProvidersOfGroups(Tail(groups))

autodetectFromGroup(probe) ==
    IF probe.groups.err THEN [platform |-> <<>>, err |-> TRUE]
    ELSE [platform |-> ProvidersOfGroups(probe.groups.names), err |-> FALSE]

\* isDockerEE(): a master node has a label that starts with com.docker.ucp.
isDockerEE(probe) ==
    IF probe.masterNodes = "error" THEN [found |-> FALSE, err |-> TRUE]
    ELSE [found |-> probe.masterNodes = "ucp", err |-> FALSE]

\* isEKS() with NotFound taken for a failure.
ConfigMapFoundStrict(answer) ==
    IF answer = "found" THEN [found |-> TRUE, err |-> FALSE]
    ELSE [found |-> FALSE, err |-> TRUE]

\* isEKS() and isRKE2(): the ConfigMap is there; NotFound is no error.
ConfigMapFound(answer) ==
    IF answer = "notfound" THEN [found |-> FALSE, err |-> FALSE]
    ELSE IF answer = "error" THEN [found |-> FALSE, err |-> TRUE]
    ELSE [found |-> TRUE, err |-> FALSE]

isEKS(probe) == ConfigMapFound(probe.eks)

isRKE2(probe) == ConfigMapFound(probe.rke2)

\* AutoDiscoverProvider(): the provider, whether an error is returned, and the
\* queries it made, in order.
AutoDiscoverProvider(probe) ==
    LET g == autodetectFromGroup(probe)
        d == isDockerEE(probe)
        e == isEKS(probe)
        r == isRKE2(probe)
        detectedProviders ==
            g.platform
            \o (IF d.found THEN <<"DockerEE">> ELSE <<>>)
            \o (IF e.found THEN <<"EKS">> ELSE <<>>)
            \o (IF r.found THEN <<"RKE2">> ELSE <<>>)
    IN IF g.err
       THEN [provider |-> ProviderNone, err |-> TRUE, queries |-> <<"ServerGroups">>]
       ELSE IF d.err
       THEN [provider |-> ProviderNone, err |-> TRUE,
             queries |-> <<"ServerGroups", "Nodes">>]
       ELSE IF e.err
       THEN [provider |-> ProviderNone, err |-> TRUE,
             queries |-> <<"ServerGroups", "Nodes", "eks-certificates-controller">>]
       ELSE LET all == <<"ServerGroups", "Nodes", "eks-certificates-controller", "rke2">> IN
            IF r.err THEN [provider |-> ProviderNone, err |-> TRUE, queries |-> all]
            ELSE IF Len(detectedProviders) > 1
            THEN [provider |-> ProviderNone, err |-> TRUE, queries |-> all]
            ELSE IF Len(detectedProviders) = 1
            THEN [provider |-> detectedProviders[1], err |-> FALSE, queries |-> all]
            ELSE [provider |-> ProviderNone, err |-> FALSE, queries |-> all]

\* What the API server can answer.
Probes ==
    [ groups      : {[err |-> TRUE, names |-> <<>>]}
                    \cup {[err |-> FALSE, names |-> n] :
                             n \in {<<>>, <<"apps">>, <<"apps", "config.openshift.io">>,
                                    <<"networking.gke.io", "apps">>,
                                    <<"config.openshift.io", "networking.gke.io">>}},
      masterNodes : {"error", "none", "ucp"},
      eks         : {"error", "notfound", "found"},
      rke2        : {"error", "notfound", "found"} ]

\* The LogCollector instances fillDefaults is called on: every
\* CollectProcessPath, with and without additional stores and a Syslog store,
\* whose LogTypes is nil, empty or a list the user wrote.
SyslogLogTypeLists ==
    { <<>>, DefaultLogTypes, <<"Audit", "IDSEvents">>, <<"IDSEvents">>, <<"Flows">>,
      <<"Audit", "DNS", "Flows", "IDSEvents">> }

FillDefaultsInstances ==
    { LC(cpp, FALSE, FALSE, FALSE, TRUE, TRUE, <<>>, FALSE, eks) :
        cpp \in {"nil", "Enabled", "Disabled"}, eks \in BOOLEAN }
    \cup { LC(cpp, TRUE, s3, FALSE, TRUE, TRUE, <<>>, splunk, FALSE) :
        cpp \in {"nil", "Enabled", "Disabled"}, s3 \in BOOLEAN, splunk \in BOOLEAN }
    \cup { LC(cpp, TRUE, s3, TRUE, TRUE, TRUE, <<>>, FALSE, FALSE) :
        cpp \in {"nil", "Enabled", "Disabled"}, s3 \in BOOLEAN }
    \cup { LC(cpp, TRUE, s3, TRUE, TRUE, FALSE, types, FALSE, FALSE) :
        cpp \in {"nil", "Enabled", "Disabled"}, s3 \in BOOLEAN,
        types \in SyslogLogTypeLists }

(***************************************************************************)
(* The helper functions called on their own.                               *)
(***************************************************************************)
InitFunctions ==
    /\ ControllerIdle
    /\ es = <<>> /\ esOut = <<>>
    /\ fl = <<>> /\ flOut = <<>>
    /\ ns = <<>> /\ nsOut = <<>>
    /\ call \in { [fn |-> "memoryQuantityToJVMHeapSize", q |-> q] : q \in MemoryQuantities }
                \cup { [fn |-> "AutoDiscoverProvider", probe |-> p] : p \in Probes }
                \cup { [fn |-> "fillDefaults", instance |-> i] : i \in FillDefaultsInstances }
    /\ ret = <<>>

JVMHeapSize ==
    /\ call.fn = "memoryQuantityToJVMHeapSize"
    /\ ret = <<>>
    /\ ret' = <<memoryQuantityToJVMHeapSize(call.q)>>
    /\ UNCHANGED <<ctlVars, esVars, flVars, nsVars, call>>

DiscoverProvider ==
    /\ call.fn = "AutoDiscoverProvider"
    /\ ret = <<>>
    /\ ret' = <<AutoDiscoverProvider(call.probe)>>
    /\ UNCHANGED <<ctlVars, esVars, flVars, nsVars, call>>

\* fillDefaults on the instance, then on the instance it left.
FillDefaults ==
    /\ call.fn = "fillDefaults"
    /\ Len(ret) < 2
    /\ ret' = Append(ret, fillDefaults(IF ret = <<>> THEN call.instance
                                       ELSE ret[Len(ret)].instance))
    /\ UNCHANGED <<ctlVars, esVars, flVars, nsVars, call>>

NextFunctions ==
    \/ JVMHeapSize
    \/ DiscoverProvider
    \/ FillDefaults

SpecFunctions == InitFunctions /\ [][NextFunctions]_vars

\* A quantity in Ki, rounded down; the heap an option asks for, in Ki.
KiOf(d) == d[2] + 1024 * (d[3] + 1024 * d[4])

HeapKi(h) ==
    CASE h.unit = "K" -> h.n
      [] h.unit = "M" -> 1024 * h.n
      [] h.unit = "G" -> 1024 * 1024 * h.n
      [] OTHER -> -1

Max(a, b) == IF a >= b THEN a ELSE b

\* C12: for a memory quantity of q bytes the heap is
\* min(max(1024 * floor(floor(q / 2) / 1024), 2 Mi), 26 Gi) bytes: a multiple
\* of 1024 (given in K, M or G), at least 2 Mi (2048 Ki) and at most 26 Gi
\* (27262976 Ki), non-decreasing in q, and half of q rounded down to a multiple
\* of 1024 when that lies within the limits.  In Ki, with q = 1024 * K + b and
\* b < 1024, floor(floor(q / 2) / 1024) is floor(K / 2).
HeapSizing ==
    (ret # <<>> /\ call.fn = "memoryQuantityToJVMHeapSize") =>
        LET half == KiOf(call.q) \div 2 IN
        /\ ret[1].unit \in {"K", "M", "G"}
        /\ HeapKi(ret[1]) = Min(Max(half, 2048), 27262976)
        /\ HeapKi(ret[1]) >= 2048 /\ HeapKi(ret[1]) <= 27262976
        /\ (half >= 2048 /\ half <= 27262976) => HeapKi(ret[1]) = half
        /\ \A p \in MemoryQuantities :
              Cmp(p, call.q) <= 0 =>
                 HeapKi(memoryQuantityToJVMHeapSize(p)) <= HeapKi(ret[1])

\* A heap within the limits from a request that is no multiple of 2048.
HeapSizingWitness ==
    /\ ret # <<>> /\ call.fn = "memoryQuantityToJVMHeapSize"
    /\ call.q[1] = 1023 /\ call.q[2] = 1
    /\ HeapKi(ret[1]) > 2048 /\ HeapKi(ret[1]) < 27262976
    /\ ret[1].unit = "K"

\* The indications of a provider in the answers.
Indications(probe) ==
    (IF probe.groups.err THEN {}
     ELSE {"OpenShift" : i \in {j \in DOMAIN probe.groups.names :
                                   probe.groups.names[j] = "config.openshift.io"}}
          \cup {"GKE" : i \in {j \in DOMAIN probe.groups.names :
                                  probe.groups.names[j] = "networking.gke.io"}})
    \cup (IF probe.masterNodes = "ucp" THEN {"DockerEE"} ELSE {})
    \cup (IF probe.eks = "found" THEN {"EKS"} ELSE {})
    \cup (IF probe.rke2 = "found" THEN {"RKE2"} ELSE {})

QueryFails(probe) ==
    probe.groups.err \/ "error" \in {probe.masterNodes, probe.eks, probe.rke2}

\* What C13 says of the result: the detected provider and no error exactly when
\* every query succeeds and one indication is detected; ProviderNone and no
\* error when none is; ProviderNone and an error when two or more are or when
\* a query fails, a ConfigMap that is not found being no failure.
DiscoveryResult(probe, r) ==
    /\ (~r.err /\ r.provider # ProviderNone)
          <=> (~QueryFails(probe) /\ Cardinality(Indications(probe)) = 1)
    /\ (~r.err /\ r.provider # ProviderNone) => r.provider \in Indications(probe)
    /\ (~QueryFails(probe) /\ Indications(probe) = {})
          => (r.provider = ProviderNone /\ ~r.err)
    /\ (QueryFails(probe) \/ Cardinality(Indications(probe)) >= 2)
          => (r.provider = ProviderNone /\ r.err)

AllHeuristics == <<"ServerGroups", "Nodes", "eks-certificates-controller", "rke2">>

\* C13 as stated: AutoDiscoverProvider always evaluates all the heuristics, and
\* its result is as DiscoveryResult says.
DiscoveryEvaluatesAll ==
    (ret # <<>> /\ call.fn = "AutoDiscoverProvider") =>
        /\ ret[1].queries = AllHeuristics
        /\ DiscoveryResult(call.probe, ret[1])

\* C13, amended: AutoDiscoverProvider evaluates the heuristics in order up to
\* the first query that fails, all of them when none fails, and its result is
\* as DiscoveryResult says.
DiscoveryInOrder ==
    (ret # <<>> /\ call.fn = "AutoDiscoverProvider") =>
        LET p == call.probe
            answers == <<IF p.groups.err THEN "error" ELSE "ok", p.masterNodes, p.eks, p.rke2>>
            failing == {i \in 1..4 : answers[i] = "error"}
            last == IF failing = {} THEN 4 ELSE CHOOSE i \in failing : \A j \in failing : i <= j
        IN /\ ret[1].queries = SubSeq(AllHeuristics, 1, last)
           /\ DiscoveryResult(p, ret[1])

\* The EKS ConfigMap is not found, the RKE2 ConfigMap is: RKE2 is returned.
DiscoveryWitness ==
    /\ ret # <<>> /\ call.fn = "AutoDiscoverProvider"
    /\ call.probe.eks = "notfound"
    /\ ret[1].provider = "RKE2" /\ ~ret[1].err
    /\ ret[1].queries = AllHeuristics

(***************************************************************************)
(* The exits of Reconcile on the fetch of the LogCollector.                *)
(***************************************************************************)
\* C14: an invocation whose fetch of the LogCollector returns NotFound calls
\* OnCRNotFound and returns an empty Result with a nil error, having issued
\* no Patch, rendered nothing, applied nothing and written no status; an
\* invocation whose fetch fails with any other error sets Degraded and
\* returns the error.
NotFoundExit ==
    inv.done =>
        /\ Returned(inv, "GetLogCollector", "notfound") =>
              /\ Called(inv, "OnCRNotFound")
              /\ inv.RequeueAfter = 0
              /\ ~inv.err
              /\ ~Called(inv, "Patch")
              /\ inv.rendered = <<>>
              /\ ~Called(inv, "CreateOrUpdateOrDelete")
              /\ ~Called(inv, "Status.Update")
              /\ ~Called(inv, "SetDegraded")
        /\ (Called(inv, "GetLogCollector")
              /\ ~Returned(inv, "GetLogCollector", "notfound")
              /\ ~Returned(inv, "GetLogCollector", "nil")) =>
              /\ inv.calls[Len(inv.calls)] =
                    [op |-> "SetDegraded", arg |-> "Error querying for LogCollector",
                     out |-> ""]
              /\ inv.err
              /\ inv.RequeueAfter = 0

\* Two invocations in a row that found no LogCollector.
NotFoundExitWitness ==
    /\ prev.done
    /\ Returned(prev, "GetLogCollector", "notfound")
    /\ inv.done
    /\ Returned(inv, "GetLogCollector", "notfound")
    /\ Called(inv, "OnCRNotFound")


(***************************************************************************)
(* fillDefaults.                                                           *)
(***************************************************************************)
\* Whether the list holds the log type.
HasLogType(types, l) == \E i \in DOMAIN types : types[i] = l

\* The names of the fields in which the two instances differ.
ChangedFields(a, b) ==
    (IF a.CollectProcessPath # b.CollectProcessPath THEN {"CollectProcessPath"} ELSE {})
    \cup (IF a.LogTypes # b.LogTypes \/ a.LogTypesNil # b.LogTypesNil
          THEN {"AdditionalStores.Syslog.LogTypes"} ELSE {})
    \cup { f \in DOMAIN a \ {"CollectProcessPath", "LogTypes", "LogTypesNil"} :
             a[f] # b[f] }

\* C15: fillDefaults changes only unset fields: a nil CollectProcessPath
\* becomes Enabled, the nil or empty LogTypes of a Syslog store become exactly
\* Audit, DNS, Flows (never IDSEvents), and every other field, every value
\* the user set included, is left as it was; the list it returns holds exactly
\* the names of the fields it changed, each once; called on the instance it
\* left, it returns an empty list and changes nothing.
FillDefaultsContract ==
    (call.fn = "fillDefaults" /\ ret # <<>>) =>
        LET in  == call.instance
            out == ret[1].instance
            m   == ret[1].modifiedFields
        IN /\ out.CollectProcessPath =
                  IF in.CollectProcessPath = "nil" THEN "Enabled" ELSE in.CollectProcessPath
           /\ IF in.AdditionalStores /\ in.Syslog /\ (in.LogTypesNil \/ in.LogTypes = <<>>)
              THEN out.LogTypes = <<"Audit", "DNS", "Flows">> /\ ~out.LogTypesNil
              ELSE out.LogTypes = in.LogTypes /\ out.LogTypesNil = in.LogTypesNil
           /\ HasLogType(out.LogTypes, "IDSEvents") => HasLogType(in.LogTypes, "IDSEvents")
           /\ \A f \in DOMAIN in \ {"CollectProcessPath", "LogTypes", "LogTypesNil"} :
                  out[f] = in[f]
           /\ { m[i] : i \in DOMAIN m } = ChangedFields(in, out)
           /\ Len(m) = Cardinality(ChangedFields(in, out))
           /\ Len(ret) = 2 =>
                  /\ ret[2].modifiedFields = <<>>
                  /\ ret[2].instance = out

\* fillDefaults has defaulted both fields of an instance whose LogCollector
\* asks for S3 as well, and was called again on the result.
FillDefaultsContractWitness ==
    /\ call.fn = "fillDefaults"
    /\ Len(ret) = 2
    /\ call.instance.S3
    /\ Len(ret[1].modifiedFields) = 2
    /\ ret[2].modifiedFields = <<>>


(***************************************************************************)
(* The Syslog endpoint.                                                    *)
(***************************************************************************)
\* Whether the LogCollector has a Syslog store whose Endpoint does not parse.
InvalidSyslogEndpoint(instance) ==
    instance.AdditionalStores /\ instance.Syslog /\ ~instance.SyslogEndpointValid

\* C16: when the LogCollector read has a Syslog store whose Endpoint does not
\* parse, GetLogCollector returns an error and the invocation sets Degraded
\* and returns the error before defaulting: it issues no Patch, renders
\* nothing and applies nothing; no invocation hands render.Fluentd a
\* LogCollector whose Syslog endpoint is invalid.
InvalidEndpointExit ==
    inv.done =>
        /\ (cluster.logCollector = "ok" /\ InvalidSyslogEndpoint(cr)) =>
              /\ inv.calls =
                    << [op |-> "GetLogCollector", arg |-> "", out |-> "invalid"],
                       [op |-> "SetDegraded", arg |-> "Error querying for LogCollector",
                        out |-> ""] >>
              /\ inv.err
              /\ inv.RequeueAfter = 0
              /\ ~inv.patched
              /\ inv.rendered = <<>>
        /\ \A i \in DOMAIN inv.rendered :
              ~InvalidSyslogEndpoint(inv.rendered[i].LogCollector)

\* An invocation has returned on a LogCollector whose Syslog endpoint is
\* invalid and whose LogTypes fillDefaults would have set.
InvalidEndpointExitWitness ==
    /\ inv.done
    /\ cluster.logCollector = "ok"
    /\ InvalidSyslogEndpoint(cr)
    /\ DefaultsLogTypes(cr)
    /\ Returned(inv, "GetLogCollector", "invalid")


(***************************************************************************)
(* The defaults Patch.                                                     *)
(***************************************************************************)
\* The names of the defaulted fields between the copy taken before
\* fillDefaults and the instance after it, in the order fillDefaults sets them.
DefaultedFields(s) ==
    SelectSeq(<<"CollectProcessPath", "AdditionalStores.Syslog.LogTypes">>,
              LAMBDA f : f \in ChangedFields(s.preDefault, s.instance))

PatchCalls(s) == SelectSeq(s.calls, LAMBDA c : c.op = "Patch")

\* C17: an invocation that found the LogCollector issues a Patch, once and
\* holding the fields that differ from the copy taken before defaulting, if
\* and only if fillDefaults changed at least one field; an invocation that
\* did not find it issues none.  When the Patch fails the invocation sets
\* Degraded with a message naming the defaulted fields, returns the error,
\* and has rendered and applied nothing.
PatchIffDefaulted ==
    inv.done =>
        /\ ~Called(inv, "OnCRFound") => ~Called(inv, "Patch")
        /\ Called(inv, "OnCRFound") =>
              /\ Called(inv, "Patch") <=> DefaultedFields(inv) # <<>>
              /\ Called(inv, "Patch") =>
                    /\ Len(PatchCalls(inv)) = 1
                    /\ PatchCalls(inv)[1].arg = Join(DefaultedFields(inv))
                    /\ inv.patched <=> Returned(inv, "Patch", "ok")
        /\ Returned(inv, "Patch", "error") =>
              /\ inv.calls[Len(inv.calls)] =
                    [op |-> "SetDegraded",
                     arg |-> "Failed to set defaults for LogCollector fields: ["
                                \o Join(DefaultedFields(inv)) \o "]",
                     out |-> ""]
              /\ inv.calls[Len(inv.calls) - 1].op = "Patch"
              /\ inv.err
              /\ inv.rendered = <<>>
              /\ ~Called(inv, "render.Fluentd")
              /\ ~Called(inv, "CreateOrUpdateOrDelete")

\* The Patch of two defaulted fields failed.
PatchIffDefaultedWitness ==
    /\ inv.done
    /\ Returned(inv, "Patch", "error")
    /\ Len(DefaultedFields(inv)) = 2


(***************************************************************************)
(* Reconcile statement by statement, interleaved with the goroutines Add   *)
(* starts.  The controller runs one invocation at a time; call.pc is the   *)
(* statement the invocation is at, 0 between invocations.                  *)
(***************************************************************************)
\* The statements of Reconcile in the order of the code.
ReconcileStatement(k, s) ==
    CASE k = 1  -> FetchInstance(s)
      [] k = 2  -> DefaultInstance(s)
      [] k = 3  -> WaitAPIServer(s)
      [] k = 4  -> WaitTierWatch(s)
      [] k = 5  -> WaitTier(s)
      [] k = 6  -> WaitLicenseAPI(s)
      [] k = 7  -> FetchLicenseKey(s)
      [] k = 8  -> GetInstallation(s)
      [] k = 9  -> GetElasticsearchClusterConfig(s)
      [] k = 10 -> GetNetworkingPullSecrets(s)
      [] k = 11 -> ElasticsearchSecrets(s)
      [] k = 12 -> CreateCertificateManager(s)
      [] k = 13 -> GetOrCreateKeyPair(s)
      [] k = 14 -> GetPrometheusCertificate(s)
      [] k = 15 -> GetESGatewayCertificate(s)
      [] k = 16 -> CheckExportLogs(s)
      [] k = 17 -> getS3Credential(s)
      [] k = 18 -> getSplunkCredential(s)
      [] k = 19 -> GetManagementClusterConnection(s)
      [] k = 20 -> ValidateSyslogLogTypes(s)
      [] k = 21 -> getFluentdFilters(s)
      [] k = 22 -> getEksCloudwatchLogConfig(s)
      [] k = 23 -> RenderLinux(s)
      [] k = 24 -> ApplyLinux(s)
      [] k = 25 -> hasWindowsNodes(s)
      [] k = 26 -> RenderWindows(s)
      [] OTHER  -> ReportStatus(s)

InitInterleaved ==
    /\ ControllerInit
    /\ es = <<>> /\ esOut = <<>>
    /\ fl = <<>> /\ flOut = <<>>
    /\ ns = <<>> /\ nsOut = <<>>
    /\ call = [fn |-> "Reconcile", pc |-> 0]
    /\ ret = <<>>

\* controller-runtime calls Reconcile for the queued request.
ReconcileBegin ==
    /\ call.pc = 0
    /\ queue.queued
    /\ inv' = Start
    /\ prev' = inv
    /\ call' = [call EXCEPT !.pc = 1]
    /\ queue' = [queue EXCEPT !.queued = FALSE]
    /\ UNCHANGED <<cluster, cr, tierWatchReady, licenseAPIReady>>
    /\ UNCHANGED <<esVars, flVars, nsVars, ret>>

\* The invocation executes its next statement; the one it returns in ends
\* it.  A returned error or RequeueAfter, and the invocation's own write to
\* the LogCollector, queue the request again.
ReconcileStep ==
    /\ call.pc > 0
    /\ LET r == ReconcileStatement(call.pc, inv) IN
        /\ inv' = r
        /\ call' = [call EXCEPT !.pc = IF r.done THEN 0 ELSE call.pc + 1]
        /\ cr' = IF r.done THEN InstanceWritten(r) ELSE cr
        /\ queue' = IF r.done
                    THEN [ queued |-> queue.queued \/ InstanceWritten(r) # cr
                                        \/ r.err \/ r.RequeueAfter > 0,
                           timer  |-> FALSE ]
                    ELSE queue
    /\ UNCHANGED <<cluster, tierWatchReady, licenseAPIReady, prev>>
    /\ UNCHANGED <<esVars, flVars, nsVars, ret>>

\* The goroutine of utils.WaitToAddTierWatch marks its flag, queueing a
\* request through the watch it added.
MarkTierWatchReady ==
    /\ ~tierWatchReady
    /\ tierWatchReady' = TRUE
    /\ queue' = [queue EXCEPT !.queued = TRUE]
    /\ UNCHANGED <<cluster, cr, licenseAPIReady, inv, prev>>
    /\ UNCHANGED <<esVars, flVars, nsVars, fnVars>>

\* The goroutine of utils.WaitToAddLicenseKeyWatch marks its flag.
MarkLicenseAPIReady ==
    /\ ~licenseAPIReady
    /\ licenseAPIReady' = TRUE
    /\ queue' = [queue EXCEPT !.queued = TRUE]
    /\ UNCHANGED <<cluster, cr, tierWatchReady, inv, prev>>
    /\ UNCHANGED <<esVars, flVars, nsVars, fnVars>>

NextInterleaved ==
    \/ ReconcileBegin
    \/ ReconcileStep
    \/ MarkTierWatchReady
    \/ MarkLicenseAPIReady

SpecInterleaved == InitInterleaved /\ [][NextInterleaved]_vars

\* Whether call i of the invocation follows a call of op that returned out.
Follows(s, i, op, out) ==
    \E j \in 1..(i - 1) : s.calls[j].op = op /\ s.calls[j].out = out

IsTierQuery(c) == c.op = "Get" /\ c.arg = "Tier"

\* C18: under every interleaving of the goroutines that set tierWatchReady
\* and licenseAPIReady with the statements of Reconcile, an invocation
\* queries the allow-tigera Tier only after it observed tierWatchReady set
\* and fetches the license only after it observed licenseAPIReady set; an
\* invocation that observed a flag unset has returned RequeueAfter 10 seconds
\* with a nil error, without the query the flag guards.
FlagOrdering ==
    /\ \A i \in DOMAIN inv.calls :
          /\ IsTierQuery(inv.calls[i]) => Follows(inv, i, "tierWatchReady.IsReady", "ok")
          /\ inv.calls[i].op = "FetchLicenseKey" =>
                Follows(inv, i, "licenseAPIReady.IsReady", "ok")
    /\ Returned(inv, "tierWatchReady.IsReady", "notready") =>
          /\ inv.done
          /\ inv.RequeueAfter = 10
          /\ ~inv.err
          /\ \A i \in DOMAIN inv.calls : ~IsTierQuery(inv.calls[i])
          /\ ~Called(inv, "FetchLicenseKey")
    /\ Returned(inv, "licenseAPIReady.IsReady", "notready") =>
          /\ inv.done
          /\ inv.RequeueAfter = 10
          /\ ~inv.err
          /\ ~Called(inv, "FetchLicenseKey")

\* After an invocation that observed tierWatchReady unset, an invocation
\* observed it set, queried the Tier and then observed licenseAPIReady unset;
\* that flag has been set since.
FlagOrderingWitness ==
    /\ Returned(prev, "tierWatchReady.IsReady", "notready")
    /\ Returned(inv, "tierWatchReady.IsReady", "ok")
    /\ \E i \in DOMAIN inv.calls : IsTierQuery(inv.calls[i])
    /\ Returned(inv, "licenseAPIReady.IsReady", "notready")
    /\ licenseAPIReady


(***************************************************************************)
(* The license gate on the additional stores.                              *)
(***************************************************************************)
\* The environment variables that turn on forwarding to S3, Syslog and Splunk.
ForwardingEnvs == {"S3_STORAGE=true", "SYSLOG_HOST", "SPLUNK_HEC_HOST"}

\* Whether the Fluentd rendered from the configuration forwards to a store.
Forwards(cfg) == Range(envvars(cfg)) \cap ForwardingEnvs # {}

\* C19: an invocation that finds the export-logs feature inactive on a
\* LogCollector with Spec.AdditionalStores set ends by setting Degraded with
\* 'Feature is not active', and has rendered and applied no component; no
\* invocation under a license without export-logs renders a Fluentd whose
\* environment forwards to S3, Syslog or Splunk.
LicenseGate ==
    inv.done =>
        /\ (Returned(inv, "IsFeatureActive", "inactive") /\ inv.instance.AdditionalStores) =>
              /\ inv.calls[Len(inv.calls)] =
                    [op |-> "SetDegraded", arg |-> "Feature is not active", out |-> ""]
              /\ inv.calls[Len(inv.calls) - 1].op = "IsFeatureActive"
              /\ inv.rendered = <<>>
              /\ ~Called(inv, "render.Fluentd")
              /\ ~Called(inv, "CreateOrUpdateOrDelete")
        /\ cluster.exportLogs = "inactive" =>
              \A i \in DOMAIN inv.rendered : ~Forwards(inv.rendered[i])

\* An invocation stopped at the license gate on a LogCollector with an S3
\* and a Syslog store.
LicenseGateWitness ==
    /\ inv.done
    /\ cluster.exportLogs = "inactive"
    /\ Returned(inv, "IsFeatureActive", "inactive")
    /\ inv.instance.AdditionalStores
    /\ inv.instance.S3
    /\ inv.instance.Syslog


(***************************************************************************)
(* Syslog IDSEvents in a managed cluster.                                  *)
(***************************************************************************)
\* Whether the Syslog store of the instance lists IDSEvents.
SyslogHasIDSEvents(instance) ==
    /\ instance.AdditionalStores
    /\ instance.Syslog
    /\ ~instance.LogTypesNil
    /\ HasLogType(instance.LogTypes, "IDSEvents")

\* C20: an invocation that found a ManagementClusterConnection on a
\* LogCollector whose Syslog.LogTypes contains IDSEvents ends by setting
\* Degraded, and has rendered and applied nothing; no Fluentd DaemonSet an
\* invocation rendered with ManagedCluster = true carries the environment
\* variable SYSLOG_IDS_EVENT_LOG.
ManagedClusterNoIDSEvents ==
    inv.done =>
        /\ (Returned(inv, "GetManagementClusterConnection", "ok")
               /\ SyslogHasIDSEvents(inv.instance)) =>
              /\ inv.calls[Len(inv.calls)] =
                    [op |-> "SetDegraded",
                     arg |-> "IDSEvents option is not supported for Syslog config in a managed cluster",
                     out |-> ""]
              /\ inv.rendered = <<>>
              /\ ~Called(inv, "render.Fluentd")
              /\ ~Called(inv, "CreateOrUpdateOrDelete")
        /\ \A i \in DOMAIN inv.rendered :
              inv.rendered[i].ManagedCluster =>
                  ~HasLogType(daemonset(inv.rendered[i]).data, "SYSLOG_IDS_EVENT_LOG=true")

\* An invocation in a managed cluster stopped on a Syslog store that lists
\* IDSEvents after another log type.
ManagedClusterNoIDSEventsWitness ==
    /\ inv.done
    /\ Returned(inv, "GetManagementClusterConnection", "ok")
    /\ SyslogHasIDSEvents(inv.instance)
    /\ inv.instance.LogTypes[1] # "IDSEvents"
    /\ Called(inv, "IsFeatureActive")

(***************************************************************************)
(* The credentials of the additional stores.                               *)
(***************************************************************************)
\* envvars() reads c.cfg.SplkCredential.Certificate for a Splunk store: with
\* a nil SplkCredential that is the dereference of a nil pointer.
envvarsDereferencesNil(cfg) ==
    /\ cfg.LogCollector.AdditionalStores
    /\ cfg.LogCollector.Splunk
    /\ cfg.SplkCredential = "nil"

\* The Secret an environment variable of the DaemonSet takes its value from,
\* "" for a variable that refers to none.
SecretKeyRef(env) ==
    CASE env = "AWS_KEY_ID"       -> "log-collector-s3-credentials"
      [] env = "AWS_SECRET_KEY"   -> "log-collector-s3-credentials"
      [] env = "SPLUNK_HEC_TOKEN" -> "logcollector-splunk-credentials"
      [] OTHER -> ""

\* Whether the create list of the component holds the Secret of this name.
RendersSecret(cfg, name) ==
    \E o \in Range(FluentdObjects(cfg).create) :
        o.kind = "Secret" /\ o.namespace = LogCollectorNamespace /\ o.name = name

\* C21: every FluentdConfiguration an invocation builds has an S3Credential
\* when the LogCollector has an S3 store and a SplkCredential when it has a
\* Splunk store, so that envvars() dereferences no nil SplkCredential and the
\* Secrets that AWS_KEY_ID, AWS_SECRET_KEY and SPLUNK_HEC_TOKEN of the
\* DaemonSet refer to are in the create list; an invocation that finds the
\* credential secret of a configured store missing ends by setting Degraded
\* and has rendered nothing.
CredentialsAtRender ==
    /\ \A i \in DOMAIN inv.rendered :
          LET cfg == inv.rendered[i]
              lc  == cfg.LogCollector
          IN /\ (lc.AdditionalStores /\ lc.S3) => cfg.S3Credential
             /\ (lc.AdditionalStores /\ lc.Splunk) => cfg.SplkCredential # "nil"
             /\ ~envvarsDereferencesNil(cfg)
             /\ \A e \in Range(daemonset(cfg).data) :
                    SecretKeyRef(e) # "" => RendersSecret(cfg, SecretKeyRef(e))
    /\ inv.done =>
          /\ Returned(inv, "getS3Credential", "notfound") =>
                /\ inv.calls[Len(inv.calls)] =
                      [op |-> "SetDegraded", arg |-> "S3 credential secret does not exist",
                       out |-> ""]
                /\ inv.rendered = <<>>
          /\ Returned(inv, "getSplunkCredential", "notfound") =>
                /\ inv.calls[Len(inv.calls)] =
                      [op |-> "SetDegraded",
                       arg |-> "Splunk credential secret does not exist", out |-> ""]
                /\ inv.rendered = <<>>

\* An invocation rendered Fluentd for a LogCollector with an S3 and a Splunk
\* store, whose DaemonSet refers to both credential Secrets.
CredentialsAtRenderWitness ==
    /\ inv.done
    /\ \E i \in DOMAIN inv.rendered :
          /\ inv.rendered[i].LogCollector.S3
          /\ inv.rendered[i].LogCollector.Splunk
          /\ HasLogType(daemonset(inv.rendered[i]).data, "AWS_KEY_ID")
          /\ HasLogType(daemonset(inv.rendered[i]).data, "SPLUNK_HEC_TOKEN")


(***************************************************************************)
(* The Windows component.                                                  *)
(***************************************************************************)
\* The index of the invocation's call of op with arg, 0 when there is none.
CallIndex(s, op, arg) ==
    IF \E i \in DOMAIN s.calls : s.calls[i].op = op /\ s.calls[i].arg = arg
    THEN CHOOSE i \in DOMAIN s.calls : s.calls[i].op = op /\ s.calls[i].arg = arg
    ELSE 0

\* Whether the invocation made the call of op with arg and got out.
ReturnedFor(s, op, arg, out) ==
    \E i \in DOMAIN s.calls :
        s.calls[i].op = op /\ s.calls[i].arg = arg /\ s.calls[i].out = out

WindowsRendered(s) == CallIndex(s, "render.Fluentd", "windows") > 0

WindowsApplied(s) == CallIndex(s, "CreateOrUpdateOrDelete", "fluentd-windows") > 0

\* The list of the Windows nodes succeeded with at least one node.
ListedWindowsNodes(s) == Returned(s, "hasWindowsNodes", "windows")

\* Whether the component was applied successfully before call i.
AppliedBefore(s, comp, i) ==
    /\ ReturnedFor(s, "CreateOrUpdateOrDelete", comp, "ok")
    /\ CallIndex(s, "CreateOrUpdateOrDelete", comp) < i

\* The Windows component comes after the successful applies of the Linux
\* Fluentd and the certificate management components, and not at all after a
\* failed one.
WindowsAfterLinux(s) ==
    /\ WindowsRendered(s) =>
          /\ AppliedBefore(s, "fluentd-linux", CallIndex(s, "render.Fluentd", "windows"))
          /\ AppliedBefore(s, "certificate-management",
                           CallIndex(s, "render.Fluentd", "windows"))
    /\ WindowsApplied(s) =>
          CallIndex(s, "render.Fluentd", "windows")
              < CallIndex(s, "CreateOrUpdateOrDelete", "fluentd-windows")
    /\ (ReturnedFor(s, "CreateOrUpdateOrDelete", "fluentd-linux", "error")
          \/ ReturnedFor(s, "CreateOrUpdateOrDelete", "certificate-management", "error")) =>
          ~WindowsRendered(s) /\ ~WindowsApplied(s)

\* C22 as stated: the Windows component is rendered and applied if and only
\* if the list of the Windows nodes succeeded with at least one node, and
\* only after both Linux-side applies succeeded in the same invocation.
WindowsRenderedAndAppliedIffNodes ==
    inv.done =>
        /\ (WindowsRendered(inv) /\ WindowsApplied(inv)) <=> ListedWindowsNodes(inv)
        /\ WindowsAfterLinux(inv)

\* C22, amended: the Windows component is rendered if and only if the list of
\* the Windows nodes succeeded with at least one node, and applied if and
\* only if, besides, its images were resolved from the ImageSet; it is
\* rendered only after both Linux-side applies succeeded in the same
\* invocation, and never after a failed one.
WindowsOrdering ==
    inv.done =>
        /\ WindowsRendered(inv) <=> ListedWindowsNodes(inv)
        /\ WindowsApplied(inv) <=>
              (ListedWindowsNodes(inv) /\ ReturnedFor(inv, "ApplyImageSet", "windows", "ok"))
        /\ WindowsAfterLinux(inv)

\* An invocation rendered the Windows component and did not apply it, its
\* images not being resolved.
WindowsOrderingWitness ==
    /\ inv.done
    /\ ListedWindowsNodes(inv)
    /\ WindowsRendered(inv)
    /\ ReturnedFor(inv, "ApplyImageSet", "windows", "error")
    /\ ~WindowsApplied(inv)


(***************************************************************************)
(* The errors Reconcile returns and the status.                            *)
(***************************************************************************)
\* C23: an invocation that found the LogCollector and returned a non-nil
\* error has called SetDegraded before it returned.
ErrorsReported ==
    (inv.done /\ inv.err /\ Called(inv, "OnCRFound")) => Called(inv, "SetDegraded")


(***************************************************************************)
(* Reconcile called for two requests on the same state of the cluster.     *)
(* What an invocation writes is in its record; the cluster is left as it   *)
(* was, so that the second invocation starts where the first one did.      *)
(***************************************************************************)
InitRequests ==
    /\ cluster \in ClusterStates
    /\ cr \in LogCollectors
    /\ tierWatchReady \in BOOLEAN
    /\ licenseAPIReady \in BOOLEAN
    /\ queue = [queued |-> TRUE, timer |-> FALSE]
    /\ inv = NoInvocation
    /\ prev = NoInvocation
    /\ es = <<>> /\ esOut = <<>>
    /\ fl = <<>> /\ flOut = <<>>
    /\ ns = <<>> /\ nsOut = <<>>
    /\ call \in { [fn |-> "Reconcile", requests |-> p] :
                     p \in {q \in Requests \X Requests : q[1] # q[2]} }
    /\ ret = <<>>

ReconcileOnRequest ==
    /\ call.fn = "Reconcile"
    /\ Len(ret) < 2
    /\ ret' = Append(ret, ReconcileRequest(call.requests[Len(ret) + 1]))
    /\ UNCHANGED <<ctlVars, esVars, flVars, nsVars, call>>

NextRequests == ReconcileOnRequest

SpecRequests == InitRequests /\ [][NextRequests]_vars

\* What an invocation returned and did, the request apart.
Outcome(s) == [s EXCEPT !.request = DefaultTSEEInstanceKey]

\* C24: two invocations on the same state of the cluster for different
\* requests return the same (Result, error), make the same calls, the fetch
\* of the one LogCollector tigera-secure included, and render and apply the
\* same objects.
RequestIndependence ==
    Len(ret) = 2 =>
        /\ ret[1].RequeueAfter = ret[2].RequeueAfter
        /\ ret[1].err = ret[2].err
        /\ ret[1].calls = ret[2].calls
        /\ RenderedObjects(ret[1]) = RenderedObjects(ret[2])
        /\ Outcome(ret[1]) = Outcome(ret[2])

\* An invocation for the request of a Node event and one for the request of
\* the LogCollector have both applied the Fluentd component.
RequestIndependenceWitness ==
    /\ Len(ret) = 2
    /\ ret[1].request.Name = "node-1"
    /\ ret[2].request = DefaultTSEEInstanceKey
    /\ Called(ret[1], "CreateOrUpdateOrDelete")
    /\ Called(ret[2], "CreateOrUpdateOrDelete")


(***************************************************************************)
(* The finalization of the LogStorage.                                     *)
(***************************************************************************)
IsElasticsearchCR(o) ==
    o.kind = "Elasticsearch" /\ o.namespace = ElasticsearchNamespace /\ o.name = "tigera-secure"

IsKibanaCR(o) ==
    o.kind = "Kibana" /\ o.namespace = KibanaNamespace /\ o.name = "tigera-secure"

\* C25: for a LogStorage that has a DeletionTimestamp, whatever the cluster
\* type, Objects() returns an empty create list and a delete list that holds
\* the Elasticsearch CR if and only if it exists and has no
\* DeletionTimestamp, the Kibana CR if and only if it exists and has no
\* DeletionTimestamp, each once, and nothing else.
LogStorageFinalization ==
    es # <<>> /\ es.LogStorageDeleting =>
        \A k \in DOMAIN esOut :
            LET del == esOut[k].delete IN
            /\ esOut[k].create = <<>>
            /\ (\E i \in DOMAIN del : IsElasticsearchCR(del[i])) <=> es.Elasticsearch = "live"
            /\ (\E i \in DOMAIN del : IsKibanaCR(del[i])) <=> es.Kibana = "live"
            /\ \A i \in DOMAIN del : IsElasticsearchCR(del[i]) \/ IsKibanaCR(del[i])
            /\ \A i, j \in DOMAIN del : del[i] = del[j] => i = j

\* Objects() was called for a LogStorage being deleted in a managed cluster
\* on OpenShift, with the Elasticsearch CR being deleted and Kibana not.
LogStorageFinalizationWitness ==
    /\ es # <<>>
    /\ es.LogStorageDeleting
    /\ es.ManagementClusterConnection
    /\ es.Provider = "OpenShift"
    /\ es.Elasticsearch = "deleting"
    /\ es.Kibana = "live"
    /\ Len(esOut) >= 1
    /\ Len(esOut[1].delete) = 1


(***************************************************************************)
(* The create and the delete list of one call of Objects().                *)
(***************************************************************************)
\* What identifies an object: its kind, namespace and name.
ObjectKey(o) == <<o.kind, o.namespace, o.name>>

ObjectKeys(objs) == { ObjectKey(objs[i]) : i \in DOMAIN objs }

\* C26: no object, identified by kind, namespace and name, is in both the
\* create list and the delete list of one call of the LogStorage Objects();
\* the delete list of the Fluentd Objects() is empty.
NoCreateAndDelete ==
    /\ \A k \in DOMAIN esOut :
          ObjectKeys(esOut[k].create) \cap ObjectKeys(esOut[k].delete) = {}
    /\ \A k \in DOMAIN flOut : flOut[k].delete = <<>>

\* Objects() of a LogStorage in FIPS mode returned a delete list with the
\* Kibana CR, the curator CronJob, both services and the unused TLS secret,
\* and Objects() of a Fluentd component was called.
NoCreateAndDeleteWitness ==
    /\ Len(esOut) >= 1
    /\ es.FIPSMode
    /\ Len(esOut[1].create) > 0
    /\ Len(esOut[1].delete) = 5
    /\ Len(flOut) >= 1
    /\ Len(flOut[1].create) > 0


(***************************************************************************)
(* Pod security policies.                                                  *)
(***************************************************************************)
HasPodSecurityPolicy(objs) == \E i \in DOMAIN objs : objs[i].kind = "PodSecurityPolicy"

\* C27: when UsePSP of the configuration is false, the create list Objects()
\* returns holds no PodSecurityPolicy, for the LogStorage and for the
\* Fluentd renderer, whatever the provider and the FIPS mode.
NoPSPWithoutUsePSP ==
    /\ \A k \in DOMAIN esOut : ~es.UsePSP => ~HasPodSecurityPolicy(esOut[k].create)
    /\ \A k \in DOMAIN flOut : ~fl.UsePSP => ~HasPodSecurityPolicy(flOut[k].create)


====
